---- MODULE Spec2Model ----
(***************************************************************************)
(* Verification model of the nCore/TorBox stream addon.                    *)
(*                                                                         *)
(*   SpecBencode  the bencode decoder and the top-level walk of            *)
(*                parseTorrentMeta           (src/lib/ncore-client.js)     *)
(*   SpecTorrent  parseTorrentMeta on pairs of torrents that share their   *)
(*                info bytes                 (src/lib/ncore-client.js)     *)
(*   SpecSelect   chooseFileIdFromTorrent    (src/unnamed/part_001)        *)
(*   SpecResolve  resolveTorboxLinkWithWait  (src/unnamed/part_001)        *)
(*   Spec         the resolve route of the HTTP app: resolved-URL cache,   *)
(*                selection cache and in-flight map     (src/api/app.js)   *)
(*                                                                         *)
(* Buffers and file names are TLA+ strings: one character is one byte.     *)
(* Offsets are 0-based as in the source; SubSeq is 1-based.                *)
(***************************************************************************)
EXTENDS Integers, Sequences, FiniteSets, TLC

VARIABLES
    \* ---- SpecBencode
    buffer,        \* the input buffer
    decoded,       \* result of the last parseBencodeValue / readByteString call
    decodedAt,     \* the offset that call started from
    meta,          \* result of parseTorrentMeta(buffer)
    \* ---- SpecTorrent
    infoBytes,     \* raw bytes of the info value shared by both torrents
    torrentA,      \* first torrent buffer
    torrentB,      \* second torrent buffer
    metaA,         \* parseTorrentMeta(torrentA)
    metaB,         \* parseTorrentMeta(torrentB)
    \* ---- SpecSelect
    selItem,       \* the remote job handed to chooseFileIdFromTorrent
    selPreferred,  \* preferredName ("" when not given)
    selSeason,     \* season (0 when not given)
    selEpisode,    \* episode (0 when not given)
    selResult,     \* the file id returned, NotChosen before the call
    \* ---- SpecResolve
    rArgs,         \* the arguments of resolveTorboxLinkWithWait
    rPc,           \* where the call stands: the await it is suspended at
    rNow,          \* Date.now()
    rTargetHash,   \* targetHash
    rDeadline,     \* deadline
    rTorrentId,    \* torrentId
    rQueuedId,     \* queuedId
    rCreatedAttempted, \* createdAttempted
    rRequested,    \* arguments of the requestDownloadLink call made
    rOutcome,      \* what the returned promise settled with
    rCreateResults,\* history: outcomes of the createTorrentFromMagnet calls
    rLastList,     \* history: the listing the last listMyTorrents call returned
    rListCalls,    \* history: number of listMyTorrents calls
    rSleepCalls,   \* history: number of sleep(2000) calls
    rUrl,          \* url, the link of the video file
    rCandidates,   \* subtitleCandidates
    rIdx,          \* idx, counted from 1
    rSubtitles,    \* subtitles
    rSubtitleResults, \* history: how each subtitle link request ended
    \* ---- Spec: the HTTP application
    clock,         \* Date.now()
    clockSteps,    \* how often the clock has advanced
    resolveCache,  \* resolveKey -> { url, expiresAt }
    resolveInFlight, \* resolveKey -> the pending resolver invocation
    streamSelectionCache, \* selectionKey -> the selection of a stream row
    torboxMyListCache, \* api key hash -> { expiresAt, torrents }
    streams,       \* the stream requests received, in order of arrival
    lastListed,    \* history: api key hash -> when a job listing was last stored
    requests,      \* the resolve requests received, in order of arrival
    invocations,   \* the torboxResolver invocations, in order of their start
    lastStore,     \* history: resolveKey -> the URL last stored in resolveCache, and when
    staleSeen,     \* history: resolveKey -> a request arrived after that entry expired
    keysDrawn,     \* history: the selection keys crypto.randomBytes has yielded
    \* ---- SpecConfig
    cfgConfig,     \* the config handed to encodeConfig, None without one
    cfgToken,      \* the token: what encodeConfig yielded, or one from elsewhere
    cfgDecoded,    \* what decodeConfig yielded for the token
    cfgPc,         \* start, token (a token is at hand), decoded
    \* ---- SpecMapLimit
    mlItems,       \* items
    mlLimit,       \* limit
    mlPc,          \* start, running (Promise.all is awaited), returned
    mlCursor,      \* cursor
    mlResult,      \* result
    mlWorkers,     \* per worker: the index whose iteratee it awaits, -1 once it ended
    mlCalls,       \* history: per index, the number of iteratee calls
    mlOrder,       \* history: the indices in the order their iteratee calls settled
    \* ---- SpecRetry
    fwPc,          \* start, fetch (fetch is awaited), sleep (sleep is awaited), done
    fwAttempt,     \* attempt
    fwLastError,   \* lastError, "" for null
    fwOutcome,     \* what the call settled with
    fwLog,         \* history: the fetches, with what they settled with, and the sleeps
    \* ---- SpecLogin
    lgFn,          \* the function called: loginAndSearch or loginAndFetchTorrentFile
    lgPc,          \* start, login, operation, relogin, retry (the await it is at), done
    lgNow,         \* Date.now()
    lgCache,       \* the entry of loginCookieCache under the key of the account
    lgCookie,      \* cookie
    lgOutcome,     \* what the call settled with
    lgLog          \* history: the logins made and the operations tried, as they settled

bencodeVars == <<buffer, decoded, decodedAt, meta>>
torrentVars == <<infoBytes, torrentA, torrentB, metaA, metaB>>
selectVars == <<selItem, selPreferred, selSeason, selEpisode, selResult>>
subtitleVars == <<rUrl, rCandidates, rIdx, rSubtitles, rSubtitleResults>>
resolveVars == <<rArgs, rPc, rNow, rTargetHash, rDeadline, rTorrentId, rQueuedId, rCreatedAttempted,
                 rRequested, rOutcome, rCreateResults, rLastList, rListCalls, rSleepCalls,
                 subtitleVars>>
appVars == <<clock, clockSteps, resolveCache, resolveInFlight, streamSelectionCache,
             torboxMyListCache, streams, lastListed, requests, invocations, lastStore, staleSeen, keysDrawn>>
configVars == <<cfgConfig, cfgToken, cfgDecoded, cfgPc>>
mapVars == <<mlItems, mlLimit, mlPc, mlCursor, mlResult, mlWorkers, mlCalls, mlOrder>>
retryVars == <<fwPc, fwAttempt, fwLastError, fwOutcome, fwLog>>
loginVars == <<lgFn, lgPc, lgNow, lgCache, lgCookie, lgOutcome, lgLog>>
clientVars == <<mapVars, retryVars, loginVars>>
vars == <<bencodeVars, torrentVars, selectVars, resolveVars, appVars, configVars, clientVars>>

\* what each specification leaves untouched
notBencodeVars == <<torrentVars, selectVars, resolveVars, appVars, configVars, clientVars>>
notTorrentVars == <<bencodeVars, selectVars, resolveVars, appVars, configVars, clientVars>>
notSelectVars == <<bencodeVars, torrentVars, resolveVars, appVars, configVars, clientVars>>
notResolveVars == <<bencodeVars, torrentVars, selectVars, appVars, configVars, clientVars>>
notAppVars == <<bencodeVars, torrentVars, selectVars, resolveVars, configVars, clientVars>>
notConfigVars == <<bencodeVars, torrentVars, selectVars, resolveVars, appVars, clientVars>>
notClientVars == <<bencodeVars, torrentVars, selectVars, resolveVars, appVars, configVars>>

Min(a, b) == IF a < b THEN a ELSE b
Max(a, b) == IF a > b THEN a ELSE b

(***************************************************************************)
(* Text helpers used by src/lib/ncore-client.js and src/unnamed/part_001   *)
(***************************************************************************)
UpperAlphabet == "ABCDEFGHIJKLMNOPQRSTUVWXYZ"
LowerAlphabet == "abcdefghijklmnopqrstuvwxyz"
UpperChars == { SubSeq(UpperAlphabet, k, k) : k \in 1..Len(UpperAlphabet) }

CharAt(text, k) == SubSeq(text, k, k)

RECURSIVE LowerAll(_)
LowerAll(text) ==
    IF text = "" THEN ""
    ELSE LET c == CharAt(text, 1) IN
         (IF c \in UpperChars
          THEN LET k == CHOOSE j \in 1..Len(UpperAlphabet) : CharAt(UpperAlphabet, j) = c
               IN CharAt(LowerAlphabet, k)
          ELSE c) \o LowerAll(Tail(text))

\* text.toLowerCase(); a text without capitals is returned as it is
ToLowerCase(text) ==
    IF \A k \in 1..Len(text) : CharAt(text, k) \notin UpperChars THEN text
    ELSE LowerAll(text)

EndsWith(text, suffix) ==
    /\ Len(suffix) <= Len(text)
    /\ SubSeq(text, Len(text) - Len(suffix) + 1, Len(text)) = suffix

RECURSIVE NumberToString(_)
\* String(n) for a non-negative integer
NumberToString(n) ==
    IF n < 10 THEN CharAt("0123456789", n + 1)
    ELSE NumberToString(n \div 10) \o CharAt("0123456789", (n % 10) + 1)

VIDEO_EXTENSIONS ==
    {".mkv", ".mp4", ".avi", ".mov", ".wmv", ".m4v", ".webm", ".mpg", ".mpeg", ".ts", ".m2ts"}

isVideoFile(name) ==
    LET lowered == ToLowerCase(name) IN
    \E ext \in VIDEO_EXTENSIONS : EndsWith(lowered, ext)

(***************************************************************************)
(* Bencode decoder: src/lib/ncore-client.js                                *)
(***************************************************************************)

\* buffer[i]: the byte at 0-based offset i, undefined out of range.
ByteAt(buf, i) ==
    IF i >= 0 /\ i < Len(buf) THEN SubSeq(buf, i + 1, i + 1) ELSE "undefined"

\* buffer.slice(start, end): clamps both ends to the buffer.
Slice(buf, start, end) ==
    SubSeq(buf, Min(start, Len(buf)) + 1, Min(end, Len(buf)))

\* 0x30 <= byte <= 0x39
IsDigit(c) == c \in {"0", "1", "2", "3", "4", "5", "6", "7", "8", "9"}

DigitValue(c) ==
    CASE c = "0" -> 0 [] c = "1" -> 1 [] c = "2" -> 2 [] c = "3" -> 3
      [] c = "4" -> 4 [] c = "5" -> 5 [] c = "6" -> 6 [] c = "7" -> 7
      [] c = "8" -> 8 [] c = "9" -> 9

RECURSIVE DecimalValue(_)
\* Number(text) for a text made of decimal digits only.
DecimalValue(text) ==
    IF text = "" THEN 0
    ELSE 10 * DecimalValue(SubSeq(text, 1, Len(text) - 1))
           + DigitValue(SubSeq(text, Len(text), Len(text)))

AllDigits(text) == \A k \in 1..Len(text) : IsDigit(SubSeq(text, k, k))

NaN == [type |-> "NaN"]
Undefined == [type |-> "undefined"]

\* Number(text) as used on the body of an integer token: "" is 0, an optional
\* sign followed by digits is that number, anything else over the model's
\* byte alphabet is NaN.
ToNumber(text) ==
    IF text = "" THEN [type |-> "int", n |-> 0]
    ELSE IF AllDigits(text) THEN [type |-> "int", n |-> DecimalValue(text)]
    ELSE IF Len(text) > 1 /\ SubSeq(text, 1, 1) = "-" /\ AllDigits(Tail(text))
         THEN [type |-> "int", n |-> 0 - DecimalValue(Tail(text))]
    ELSE NaN

Ok(v, n) == [ok |-> TRUE, value |-> v, next |-> n, err |-> ""]
Fail(e) == [ok |-> FALSE, value |-> Undefined, next |-> -1, err |-> e]

RECURSIVE DigitsEnd(_, _)
\* while (cursor < buffer.length && isDigit(buffer[cursor])) cursor += 1
DigitsEnd(buf, cursor) ==
    IF cursor < Len(buf) /\ IsDigit(ByteAt(buf, cursor))
    THEN DigitsEnd(buf, cursor + 1)
    ELSE cursor

\* Mutant: the length is not checked against the end of the buffer.
readByteString_unchecked(buf, offset) ==
    LET cursor == DigitsEnd(buf, offset) IN
    IF cursor = offset \/ cursor >= Len(buf) \/ ByteAt(buf, cursor) # ":"
    THEN Fail("invalid bencode byte string")
    ELSE LET len == DecimalValue(Slice(buf, offset, cursor))
             start == cursor + 1
             end == start + len
         IN Ok([type |-> "str", s |-> Slice(buf, start, end)], end)

readByteString(buf, offset) ==
    LET cursor == DigitsEnd(buf, offset) IN
    IF cursor = offset \/ cursor >= Len(buf) \/ ByteAt(buf, cursor) # ":"
    THEN Fail("invalid bencode byte string")
    ELSE LET len == DecimalValue(Slice(buf, offset, cursor))
             start == cursor + 1
             end == start + len
         IN IF len < 0 \/ end > Len(buf)
            THEN Fail("invalid bencode byte string length")
            ELSE Ok([type |-> "str", s |-> Slice(buf, start, end)], end)

RECURSIVE IndexOf(_, _, _)
\* buffer.indexOf(byte, from): first offset >= from holding byte, else -1.
IndexOf(buf, byte, from) ==
    IF from >= Len(buf) THEN -1
    ELSE IF ByteAt(buf, from) = byte THEN from
    ELSE IndexOf(buf, byte, from + 1)

RECURSIVE parseBencodeValue(_, _, _)
RECURSIVE parseListItems(_, _, _, _)
RECURSIVE parseDictItems(_, _, _, _)

\* The while loop of the list branch; list holds the items decoded so far.
parseListItems(buf, cursor, skipOnly, list) ==
    IF cursor < Len(buf) /\ ByteAt(buf, cursor) # "e"
    THEN LET token == parseBencodeValue(buf, cursor, skipOnly) IN
         IF ~token.ok THEN token
         ELSE parseListItems(buf, token.next, skipOnly,
                             IF skipOnly THEN list ELSE Append(list, token.value))
    ELSE IF cursor >= Len(buf) THEN Fail("invalid bencode list")
    ELSE Ok(IF skipOnly THEN Undefined ELSE [type |-> "list", items |-> list],
            cursor + 1)

\* obj[key] = value on the entries decoded so far (a later key overwrites).
SetEntry(obj, key, value) ==
    IF \E k \in 1..Len(obj) : obj[k][1] = key
    THEN [k \in 1..Len(obj) |-> IF obj[k][1] = key THEN <<key, value>> ELSE obj[k]]
    ELSE Append(obj, <<key, value>>)

\* The while loop of the dictionary branch.
parseDictItems(buf, cursor, skipOnly, obj) ==
    IF cursor < Len(buf) /\ ByteAt(buf, cursor) # "e"
    THEN LET keyToken == readByteString(buf, cursor) IN
         IF ~keyToken.ok THEN keyToken
         ELSE LET valueToken == parseBencodeValue(buf, keyToken.next, skipOnly) IN
              IF ~valueToken.ok THEN valueToken
              ELSE parseDictItems(buf, valueToken.next, skipOnly,
                                  IF skipOnly THEN obj
                                  ELSE SetEntry(obj, keyToken.value.s, valueToken.value))
    ELSE IF cursor >= Len(buf) THEN Fail("invalid bencode dictionary")
    ELSE Ok(IF skipOnly THEN Undefined ELSE [type |-> "dict", entries |-> obj],
            cursor + 1)

parseBencodeValue(buf, offset, skipOnly) ==
    LET code == ByteAt(buf, offset) IN
    IF code = "i"
    THEN LET end == IndexOf(buf, "e", offset + 1) IN
         IF end = -1 THEN Fail("invalid bencode integer")
         ELSE Ok(IF skipOnly THEN Undefined ELSE ToNumber(Slice(buf, offset + 1, end)),
                 end + 1)
    ELSE IF code = "l" THEN parseListItems(buf, offset + 1, skipOnly, <<>>)
    ELSE IF code = "d" THEN parseDictItems(buf, offset + 1, skipOnly, <<>>)
    ELSE IF IsDigit(code)
    THEN LET token == readByteString(buf, offset) IN
         IF ~token.ok THEN token
         ELSE Ok(IF skipOnly THEN Undefined ELSE token.value, token.next)
    ELSE Fail("invalid bencode token")

skipBencodeValue(buf, offset) == parseBencodeValue(buf, offset, TRUE)

\* crypto.createHash('sha1').update(bytes).digest('hex'): an uninterpreted,
\* collision-free digest of exactly the bytes it is given.
Sha1Hex(bytes) == [digest |-> "sha1", of |-> bytes]

\* flattenAnnounceList(value)
flattenAnnounceList(value) ==
    IF value.type # "list" THEN <<>>
    ELSE LET RECURSIVE flat(_, _)
             nestedStrings(entry) ==
                 LET RECURSIVE pick(_, _)
                     pick(k, acc) ==
                         IF k > Len(entry.items) THEN acc
                         ELSE pick(k + 1, IF entry.items[k].type = "str"
                                          THEN Append(acc, entry.items[k].s) ELSE acc)
                 IN pick(1, <<>>)
             flat(k, acc) ==
                 IF k > Len(value.items) THEN acc
                 ELSE LET entry == value.items[k] IN
                      flat(k + 1,
                           IF entry.type = "list" THEN acc \o nestedStrings(entry)
                           ELSE IF entry.type = "str" THEN Append(acc, entry.s)
                           ELSE acc)
         IN flat(1, <<>>)

\* value[key] of a decoded value: the entry of a dictionary, the length of
\* a list, undefined otherwise
Prop(value, key) ==
    IF value.type = "dict"
    THEN IF \E k \in 1..Len(value.entries) : value.entries[k][1] = key
         THEN value.entries[CHOOSE k \in 1..Len(value.entries) :
                                value.entries[k][1] = key][2]
         ELSE Undefined
    ELSE IF value.type = "list" /\ key = "length"
    THEN [type |-> "int", n |-> Len(value.items)]
    ELSE Undefined

RECURSIVE NumberOf(_)
\* Number(value) of a decoded value
NumberOf(value) ==
    IF value.type = "int" THEN value
    ELSE IF value.type = "str" THEN ToNumber(value.s)
    ELSE IF value.type = "list"
    THEN IF Len(value.items) = 0 THEN [type |-> "int", n |-> 0]
         ELSE IF Len(value.items) = 1 THEN NumberOf(value.items[1])
         ELSE NaN
    ELSE NaN

\* Number(value) || 0
NumberOrZero(value) ==
    LET n == NumberOf(value) IN IF n.type = "int" THEN n.n ELSE 0

\* typeof value === 'object' of a decoded value
IsObject(value) == value.type \in {"dict", "list"}

readString(value) == IF value.type = "str" THEN value.s ELSE ""

RECURSIVE JoinSlash(_)
\* parts.join('/')
JoinSlash(parts) ==
    IF parts = <<>> THEN ""
    ELSE IF Len(parts) = 1 THEN parts[1]
    ELSE parts[1] \o "/" \o JoinSlash(Tail(parts))

\* a path whose segments are joined without a separator
joinPath_glued(pathValue) ==
    IF pathValue.type = "list"
    THEN LET RECURSIVE glue(_)
             glue(k) == IF k > Len(pathValue.items) THEN ""
                        ELSE readString(pathValue.items[k]) \o glue(k + 1)
         IN glue(1)
    ELSE readString(pathValue)

joinPath(pathValue) ==
    IF pathValue.type = "list"
    THEN LET RECURSIVE parts(_)
             \* .map(readString).filter(Boolean)
             parts(k) ==
                 IF k > Len(pathValue.items) THEN <<>>
                 ELSE LET part == readString(pathValue.items[k]) IN
                      (IF part = "" THEN <<>> ELSE <<part>>) \o parts(k + 1)
         IN JoinSlash(parts(1))
    ELSE readString(pathValue)

\* a || b on two texts
OrElse(a, b) == IF a # "" THEN a ELSE b

\* the candidates of resolveBestVideoFile, the unfiltered entries of
\* resolveVideoFiles: info.files.map((file, index) => ...)
FileEntries(files) ==
    [k \in 1..Len(files) |->
        [index |-> k - 1,
         length |-> NumberOrZero(Prop(files[k], "length")),
         name |-> OrElse(joinPath(Prop(files[k], "path.utf-8")),
                         joinPath(Prop(files[k], "path")))]]

\* entries.filter((file) => isVideoFile(file.name))
VideosOf(entries) ==
    LET RECURSIVE keep(_)
        keep(k) == IF k > Len(entries) THEN <<>>
                   ELSE (IF isVideoFile(entries[k].name) THEN <<entries[k]>> ELSE <<>>)
                        \o keep(k + 1)
    IN keep(1)

\* Number.isFinite(singleFileLength) && singleFileLength > 0
SingleFileMode(info) ==
    LET singleFileLength == NumberOf(Prop(info, "length")) IN
    singleFileLength.type = "int" /\ singleFileLength.n > 0

NoBestFile == [found |-> FALSE, index |-> -1, name |-> ""]

\* { index, name } of the largest video file; found is FALSE where the code
\* yields { index: undefined, name: undefined }
resolveBestVideoFile(info) ==
    IF ~IsObject(info) THEN NoBestFile
    ELSE IF SingleFileMode(info)
    THEN [found |-> TRUE, index |-> 0,
          name |-> OrElse(readString(Prop(info, "name.utf-8")),
                          readString(Prop(info, "name")))]
    ELSE LET files == Prop(info, "files") IN
         IF files.type # "list" \/ Len(files.items) = 0 THEN NoBestFile
         ELSE LET videos == VideosOf(FileEntries(files.items)) IN
              IF videos = <<>> THEN NoBestFile
              ELSE \* videos.sort((a, b) => b.length - a.length)[0]: the sort
                   \* is stable, so the first of the largest ones
                   LET best == CHOOSE k \in 1..Len(videos) :
                           /\ \A j \in 1..Len(videos) : videos[j].length <= videos[k].length
                           /\ \A j \in 1..(k - 1) : videos[j].length < videos[k].length
                   IN [found |-> TRUE, index |-> videos[best].index,
                       name |-> videos[best].name]

resolveVideoFiles(info) ==
    IF ~IsObject(info) THEN <<>>
    ELSE IF SingleFileMode(info)
    THEN LET name == OrElse(readString(Prop(info, "name.utf-8")),
                            readString(Prop(info, "name")))
         IN IF isVideoFile(name)
            THEN <<[index |-> 0, name |-> name,
                    length |-> NumberOf(Prop(info, "length")).n]>>
            ELSE <<>>
    ELSE LET files == Prop(info, "files") IN
         IF files.type # "list" \/ Len(files.items) = 0 THEN <<>>
         ELSE VideosOf(FileEntries(files.items))

MetaFail(e) ==
    [ok |-> FALSE, err |-> e, infoHash |-> Undefined, infoStart |-> -1,
     infoEnd |-> -1, end |-> -1, announce |-> "", announceList |-> <<>>,
     bestFile |-> NoBestFile, videoFiles |-> <<>>]

RECURSIVE walkTopLevel(_, _, _)
\* The while loop of parseTorrentMeta over the top-level keys; st carries
\* infoStart, infoEnd, announce and announceList.
walkTopLevel(buf, offset, st) ==
    IF offset < Len(buf) /\ ByteAt(buf, offset) # "e"
    THEN LET keyToken == readByteString(buf, offset) IN
         IF ~keyToken.ok THEN [st EXCEPT !.err = keyToken.err]
         ELSE LET key == keyToken.value.s
                  at == keyToken.next
              IN
              IF key = "info"
              THEN LET skipped == skipBencodeValue(buf, at) IN
                   IF ~skipped.ok THEN [st EXCEPT !.err = skipped.err]
                   ELSE walkTopLevel(buf, skipped.next,
                            [st EXCEPT !.infoStart = at, !.infoEnd = skipped.next])
              ELSE IF key = "announce"
              THEN LET valueToken == readByteString(buf, at) IN
                   IF ~valueToken.ok THEN [st EXCEPT !.err = valueToken.err]
                   ELSE walkTopLevel(buf, valueToken.next,
                            [st EXCEPT !.announce = valueToken.value.s])
              ELSE IF key = "announce-list"
              THEN LET listToken == parseBencodeValue(buf, at, FALSE) IN
                   IF ~listToken.ok THEN [st EXCEPT !.err = listToken.err]
                   ELSE walkTopLevel(buf, listToken.next,
                            [st EXCEPT !.announceList = flattenAnnounceList(listToken.value)])
              ELSE LET skipped == skipBencodeValue(buf, at) IN
                   IF ~skipped.ok THEN [st EXCEPT !.err = skipped.err]
                   ELSE walkTopLevel(buf, skipped.next, st)
    ELSE [st EXCEPT !.end = offset]

\* Mutant: the digest is taken from infoStart to the end of the buffer.
infoRawOf_toEnd(buf, infoStart, infoEnd) == Slice(buf, infoStart, Len(buf))

\* const infoRaw = buffer.slice(infoStart, infoEnd)
infoRawOf(buf, infoStart, infoEnd) == Slice(buf, infoStart, infoEnd)

\* a walk whose result is taken as it is
infoMissing_unchecked(infoStart, infoEnd) == FALSE

\* the test of line 609
infoMissing(infoStart, infoEnd) == infoStart < 0 \/ infoEnd <= infoStart

\* what parseTorrentMeta yields once the walk over the top-level keys has
\* ended in st
metaAfterWalk(buf, st) ==
    IF st.err # "" THEN MetaFail(st.err)
    ELSE IF infoMissing(st.infoStart, st.infoEnd)
    THEN MetaFail("missing info dictionary in torrent")
    ELSE CHOOSE parsed \in
             { [ok |-> TRUE, err |-> "",
                infoHash |-> Sha1Hex(infoRawOf(buf, st.infoStart, st.infoEnd)),
                infoStart |-> st.infoStart, infoEnd |-> st.infoEnd, end |-> st.end,
                announce |-> st.announce, announceList |-> st.announceList,
                bestFile |-> resolveBestVideoFile(info),
                videoFiles |-> resolveVideoFiles(info)] :
               info \in { parseBencodeValue(buf, st.infoStart, FALSE).value } } : TRUE

parseTorrentMeta(buf) ==
    IF Len(buf) = 0 \/ ByteAt(buf, 0) # "d"
    THEN MetaFail("invalid torrent data")
    ELSE CHOOSE parsed \in
             { metaAfterWalk(buf, st) :
               st \in { walkTopLevel(buf, 1,
                           [err |-> "", infoStart |-> -1, infoEnd |-> -1, end |-> -1,
                            announce |-> "", announceList |-> <<>>]) } } : TRUE

(***************************************************************************)
(* SpecBencode: every buffer made of at most MaxChunks chunks is decoded   *)
(* at every start offset, and handed to parseTorrentMeta.                  *)
(***************************************************************************)
MaxChunks == 4

Chunks == {"d", "e", "l", "i", "2", "1:", "x", "4:info"}

RECURSIVE Concat(_)
Concat(seq) == IF seq = <<>> THEN "" ELSE Head(seq) \o Concat(Tail(seq))

Buffers ==
    { Concat(cs) : cs \in UNION { [1..n -> Chunks] : n \in 0..MaxChunks } }

NoResult == [ok |-> FALSE, value |-> Undefined, next |-> -1, err |-> "not called"]
NoMeta == MetaFail("not called")

InitTorrentIdle ==
    /\ infoBytes = "" /\ torrentA = "" /\ torrentB = ""
    /\ metaA = NoMeta /\ metaB = NoMeta

NotChosen == "not chosen"

InitSelectIdle ==
    /\ selItem = [files |-> <<>>] /\ selPreferred = ""
    /\ selSeason = 0 /\ selEpisode = 0 /\ selResult = NotChosen

NoArgs ==
    [apiKey |-> "", magnet |-> "", infoHash |-> "", fileName |-> "", season |-> 0,
     episode |-> 0, includeSubtitles |-> FALSE, maxWaitMs |-> 0, skipCreate |-> FALSE]
Pending == [kind |-> "pending"]
NoList == [called |-> FALSE, list |-> <<>>, found |-> 0]
NoRequest == [torrentId |-> "", fileId |-> ""]

InitResolveIdle ==
    /\ rArgs = NoArgs /\ rPc = "idle" /\ rNow = 0 /\ rTargetHash = "" /\ rDeadline = 0
    /\ rTorrentId = "" /\ rQueuedId = "" /\ rCreatedAttempted = FALSE
    /\ rRequested = NoRequest /\ rOutcome = Pending /\ rCreateResults = <<>>
    /\ rLastList = NoList /\ rListCalls = 0 /\ rSleepCalls = 0
    /\ rUrl = "" /\ rCandidates = <<>> /\ rIdx = 1 /\ rSubtitles = <<>>
    /\ rSubtitleResults = <<>>

\* the tokens and selection keys of the requests
Tokens == {"T", "U"}
SelectionKeys == {"k1", "k2"}
ResolveKey(token, selectionKey) == token \o "|" \o selectionKey
ResolveKeys == { ResolveKey(t, k) : t \in Tokens, k \in SelectionKeys }
\* an absent map entry
None == [absent |-> TRUE]

\* what decodeConfig yields for a token: its account; "N" is the token of an
\* account without a TorBox key
decodeConfig(token) ==
    [username |-> "user-" \o token, password |-> "pw",
     torboxApiKey |-> IF token = "N" THEN "" ELSE "tb-" \o token]

\* sha1(apiKey) in hex, cut to 16 digits
hashTorboxKey(apiKey) == [digest |-> "sha1", of |-> apiKey, digits |-> 16]
MyListKeys == { hashTorboxKey(decodeConfig(t).torboxApiKey) : t \in Tokens }

\* the state of the application right after createApp
InitApp ==
    /\ clock = 0 /\ clockSteps = 0
    /\ resolveCache = [k \in ResolveKeys |-> None]
    /\ resolveInFlight = [k \in ResolveKeys |-> 0]
    /\ streamSelectionCache = [k \in SelectionKeys |-> None]
    /\ torboxMyListCache = [k \in MyListKeys |-> None]
    /\ streams = <<>>
    /\ lastListed = [k \in MyListKeys |-> None]
    /\ requests = <<>> /\ invocations = <<>>
    /\ lastStore = [k \in ResolveKeys |-> None]
    /\ staleSeen = [k \in ResolveKeys |-> FALSE]
    /\ keysDrawn = {}

InitConfigIdle ==
    /\ cfgConfig = None /\ cfgToken = "" /\ cfgDecoded = NoResult /\ cfgPc = "idle"

InitMapIdle ==
    /\ mlItems = <<>> /\ mlLimit = 0 /\ mlPc = "idle" /\ mlCursor = 0
    /\ mlResult = <<>> /\ mlWorkers = <<>> /\ mlCalls = <<>> /\ mlOrder = <<>>

InitRetryIdle ==
    /\ fwPc = "idle" /\ fwAttempt = 0 /\ fwLastError = "" /\ fwOutcome = Pending
    /\ fwLog = <<>>

InitLoginIdle ==
    /\ lgFn = "" /\ lgPc = "idle" /\ lgNow = 0 /\ lgCache = None /\ lgCookie = ""
    /\ lgOutcome = Pending /\ lgLog = <<>>

InitClientIdle == InitMapIdle /\ InitRetryIdle /\ InitLoginIdle

InitAppIdle == InitApp /\ InitConfigIdle /\ InitClientIdle

InitBencodeIdle ==
    /\ buffer = "" /\ decoded = NoResult /\ decodedAt = -1 /\ meta = NoMeta

InitBencode ==
    /\ buffer \in Buffers
    /\ decoded = NoResult
    /\ decodedAt = -1
    /\ meta = NoMeta
    /\ InitTorrentIdle /\ InitSelectIdle /\ InitResolveIdle /\ InitAppIdle

\* decode(buffer, offset) in materialising or in skip mode
DecodeValue ==
    /\ decodedAt = -1 /\ meta = NoMeta
    /\ \E offset \in 0..Len(buffer), skipOnly \in BOOLEAN :
          /\ decoded' = parseBencodeValue(buffer, offset, skipOnly)
          /\ decodedAt' = offset
    /\ UNCHANGED <<buffer, meta, notBencodeVars>>

\* readByteString(buffer, offset) called directly (dictionary keys, announce)
DecodeByteString ==
    /\ decodedAt = -1 /\ meta = NoMeta
    /\ \E offset \in 0..Len(buffer) :
          /\ decoded' = readByteString(buffer, offset)
          /\ decodedAt' = offset
    /\ UNCHANGED <<buffer, meta, notBencodeVars>>

\* parseTorrentMeta(buffer)
ExtractMeta ==
    /\ decodedAt = -1 /\ meta = NoMeta
    /\ meta' = parseTorrentMeta(buffer)
    /\ UNCHANGED <<buffer, decoded, decodedAt, notBencodeVars>>

NextBencode == DecodeValue \/ DecodeByteString \/ ExtractMeta

SpecBencode == InitBencode /\ [][NextBencode]_vars

(***************************************************************************)
(* Reference grammar of spec section 4.1, used to state what a well-formed *)
(* encoding is: integer i...e, byte string <len>:<bytes>, list l...e,      *)
(* dictionary d...e with byte-string keys.  The digits of an integer are   *)
(* left unconstrained.  WellFormedEnd is the offset after the value that   *)
(* starts at offset, or -1 when no well-formed value starts there.         *)
(***************************************************************************)
RECURSIVE WellFormedEnd(_, _)
RECURSIVE WellFormedItemsEnd(_, _, _)

WellFormedStringEnd(buf, offset) ==
    LET colon == DigitsEnd(buf, offset) IN
    IF colon = offset \/ ByteAt(buf, colon) # ":" THEN -1
    ELSE LET end == colon + 1 + DecimalValue(Slice(buf, offset, colon)) IN
         IF end <= Len(buf) THEN end ELSE -1

\* items up to the closing "e"; withKeys: each item is preceded by a key
WellFormedItemsEnd(buf, offset, withKeys) ==
    IF offset >= Len(buf) THEN -1
    ELSE IF ByteAt(buf, offset) = "e" THEN offset + 1
    ELSE LET at == IF withKeys THEN WellFormedStringEnd(buf, offset) ELSE offset IN
         IF at = -1 THEN -1
         ELSE LET end == WellFormedEnd(buf, at) IN
              IF end = -1 THEN -1 ELSE WellFormedItemsEnd(buf, end, withKeys)

WellFormedEnd(buf, offset) ==
    LET c == ByteAt(buf, offset) IN
    IF c = "i" THEN (IF \E k \in (offset + 1)..(Len(buf) - 1) : ByteAt(buf, k) = "e"
                     THEN 1 + CHOOSE k \in (offset + 1)..(Len(buf) - 1) :
                                  /\ ByteAt(buf, k) = "e"
                                  /\ \A j \in (offset + 1)..(k - 1) : ByteAt(buf, j) # "e"
                     ELSE -1)
    ELSE IF c = "l" THEN WellFormedItemsEnd(buf, offset + 1, FALSE)
    ELSE IF c = "d" THEN WellFormedItemsEnd(buf, offset + 1, TRUE)
    ELSE IF IsDigit(c) THEN WellFormedStringEnd(buf, offset)
    ELSE -1

\* C7: decoding any truncated or malformed buffer fails: whenever a decode
\* step or parseTorrentMeta returns a value, the bytes it was given are a
\* well-formed encoding (length prefixes are digits and fit the buffer, every
\* integer, list and dictionary is terminated, at every nesting level and at
\* the top level walked by parseTorrentMeta, and every leading byte is known).
MalformedAlwaysRejected ==
    /\ (decodedAt >= 0 /\ decoded.ok) => WellFormedEnd(buffer, decodedAt) # -1
    /\ meta.ok => WellFormedEnd(buffer, 0) # -1

\* C8: each successful decode step returns offset < next <= buffer.length and
\* the bytes of a decoded string lie inside the buffer; the top-level walk of
\* parseTorrentMeta never leaves the buffer either.
DecodeStaysInBounds ==
    /\ (decodedAt >= 0 /\ decoded.ok) =>
          /\ decodedAt < decoded.next
          /\ decoded.next <= Len(buffer)
          /\ decoded.value.type = "str" =>
                decoded.value.s = SubSeq(buffer, decoded.next - Len(decoded.value.s) + 1,
                                         decoded.next)
    /\ meta.ok =>
          /\ 0 < meta.infoStart /\ meta.infoStart < meta.infoEnd
          /\ meta.infoEnd <= meta.end /\ meta.end <= Len(buffer)

\* Witness of C8: a byte string was decoded from an inner offset of a buffer
\* that continues after it.
DecodeStaysInBoundsWitness ==
    /\ decodedAt > 0 /\ decoded.ok
    /\ decoded.value.type = "str" /\ decoded.value.s = "x"
    /\ decoded.next < Len(buffer)

RECURSIVE TopLevelHasInfo(_, _)
\* by the reference grammar, one of the keys of the dictionary entries that
\* start at offset is "info"; the entries end at "e", at the end of the
\* buffer or where they stop being well-formed
TopLevelHasInfo(buf, offset) ==
    IF offset >= Len(buf) \/ ByteAt(buf, offset) = "e" THEN FALSE
    ELSE LET keyEnd == WellFormedStringEnd(buf, offset) IN
         IF keyEnd = -1 THEN FALSE
         ELSE IF keyEnd - DigitsEnd(buf, offset) - 1 = 4
                 /\ Slice(buf, keyEnd - 4, keyEnd) = "info"
         THEN TRUE
         ELSE LET end == WellFormedEnd(buf, keyEnd) IN
              IF end = -1 THEN FALSE ELSE TopLevelHasInfo(buf, end)

\* C20: parseTorrentMeta throws and yields no metadata for an empty buffer
\* and for one that does not start with "d" (invalid torrent data), and for
\* one whose top-level dictionary has no info key
InvalidTorrentRejected ==
    meta # NoMeta =>
        /\ (buffer = "" \/ ByteAt(buffer, 0) # "d") =>
              meta = MetaFail("invalid torrent data")
        /\ (buffer # "" /\ ByteAt(buffer, 0) = "d" /\ ~TopLevelHasInfo(buffer, 1)) =>
              /\ ~meta.ok
              /\ meta.err # ""
              /\ meta.infoHash = Undefined

\* a dictionary with an entry, none of them info, was rejected for its
\* missing info dictionary
MissingInfoWitness ==
    /\ Len(buffer) > 2
    /\ ByteAt(buffer, 0) = "d"
    /\ WellFormedEnd(buffer, 1) # -1
    /\ ~TopLevelHasInfo(buffer, 1)
    /\ meta = MetaFail("missing info dictionary in torrent")

(***************************************************************************)
(* SpecTorrent: two torrents built around the same info bytes, with other  *)
(* top-level keys before and after the info key.                           *)
(***************************************************************************)
MaxOtherKeys == 1

MaxTorrentFiles == 2

\* The files of a multi-file torrent as they are written into it: the
\* segments of path, those of path.utf-8 (<<>> without that key), the length.
FileDescs ==
    { [path |-> <<"a.mkv">>, utf8 |-> <<>>, length |-> 5],
      [path |-> <<"d", "b.MP4">>, utf8 |-> <<>>, length |-> 9],
      [path |-> <<"c.txt">>, utf8 |-> <<>>, length |-> 7],
      [path |-> <<"x.mkv">>, utf8 |-> <<"u", "y.mkv">>, length |-> 5],
      [path |-> <<"", "e.avi">>, utf8 |-> <<>>, length |-> 3] }

FileDescSeqs == UNION { [1..n -> FileDescs] : n \in 0..MaxTorrentFiles }

\* An info dictionary as it is written: name, name.utf-8 ("" without that
\* key), length (-1 without that key), files (hasFiles: the key is there).
InfoDescs ==
    { [name |-> n, nameUtf8 |-> u, length |-> l, hasFiles |-> FALSE, files |-> <<>>] :
        n \in {"a.mkv", "n.txt"}, u \in {"", "u.MP4"}, l \in {0, 4} }
    \cup { [name |-> "t", nameUtf8 |-> "", length |-> -1, hasFiles |-> TRUE, files |-> fs] :
             fs \in FileDescSeqs }
    \cup { [name |-> "a.mkv", nameUtf8 |-> "", length |-> 4, hasFiles |-> TRUE,
            files |-> <<[path |-> <<"d", "b.MP4">>, utf8 |-> <<>>, length |-> 9]>>] }

BStr(text) == NumberToString(Len(text)) \o ":" \o text
BInt(n) == "i" \o NumberToString(n) \o "e"

RECURSIVE BStrs(_)
BStrs(texts) == IF texts = <<>> THEN "" ELSE BStr(Head(texts)) \o BStrs(Tail(texts))

EncodeFile(f) ==
    "d" \o "6:length" \o BInt(f.length) \o "4:pathl" \o BStrs(f.path) \o "e"
        \o (IF f.utf8 = <<>> THEN "" ELSE "10:path.utf-8l" \o BStrs(f.utf8) \o "e")
        \o "e"

RECURSIVE EncodeFiles(_)
EncodeFiles(fs) == IF fs = <<>> THEN "" ELSE EncodeFile(Head(fs)) \o EncodeFiles(Tail(fs))

EncodeInfo(d) ==
    "d" \o (IF d.hasFiles THEN "5:filesl" \o EncodeFiles(d.files) \o "e" ELSE "")
        \o (IF d.length >= 0 THEN "6:length" \o BInt(d.length) ELSE "")
        \o "4:name" \o BStr(d.name)
        \o (IF d.nameUtf8 = "" THEN "" ELSE "10:name.utf-8" \o BStr(d.nameUtf8))
        \o "e"

InfoValues == {"d4:name1:ae", "d4:infoi7ee"} \cup { EncodeInfo(d) : d \in InfoDescs }

OtherEntries ==
    {"8:announce1:a", "8:announce1:b", "13:announce-listll1:cee", "1:xd4:info1:ye"}

EntrySeqs(n) == UNION { [1..k -> OtherEntries] : k \in 0..n }

Contexts ==
    { c \in EntrySeqs(MaxOtherKeys) \X EntrySeqs(MaxOtherKeys) :
        Len(c[1]) + Len(c[2]) <= MaxOtherKeys }

TorrentOf(c, info) == "d" \o Concat(c[1]) \o "4:info" \o info \o Concat(c[2]) \o "e"

InitTorrent ==
    /\ infoBytes \in InfoValues
    /\ \E a \in Contexts, b \in Contexts :
          /\ torrentA = TorrentOf(a, infoBytes)
          /\ torrentB = TorrentOf(b, infoBytes)
    /\ metaA = NoMeta /\ metaB = NoMeta
    /\ InitBencodeIdle /\ InitSelectIdle /\ InitResolveIdle /\ InitAppIdle

\* parseTorrentMeta(torrent) on either of the two torrents
Extract ==
    \E side \in {"A", "B"} :
        \E parsed \in { parseTorrentMeta(IF side = "A" THEN torrentA ELSE torrentB) } :
            /\ (IF side = "A" THEN metaA ELSE metaB) = NoMeta
            /\ metaA' = (IF side = "A" THEN parsed ELSE metaA)
            /\ metaB' = (IF side = "B" THEN parsed ELSE metaB)
            /\ UNCHANGED <<infoBytes, torrentA, torrentB, notTorrentVars>>

NextTorrent == Extract

SpecTorrent == InitTorrent /\ [][NextTorrent]_vars

\* C9: two torrents with identical info bytes yield the same infoHash, the
\* digest of exactly those bytes, whatever their announce / announce-list
\* values, their other keys and the position of info among the keys.
InfoHashDependsOnInfoBytesOnly ==
    /\ metaA # NoMeta => metaA.ok /\ metaA.infoHash = Sha1Hex(infoBytes)
    /\ metaB # NoMeta => metaB.ok /\ metaB.infoHash = Sha1Hex(infoBytes)
    /\ (metaA # NoMeta /\ metaB # NoMeta) => metaA.infoHash = metaB.infoHash

\* The name a written file is listed under: the segments of path.utf-8, or
\* else those of path, that are not empty, with '/' between them.
ListedName(f) ==
    LET kept(segs) == SelectSeq(segs, LAMBDA part : part # "")
    IN JoinSlash(IF kept(f.utf8) # <<>> THEN kept(f.utf8) ELSE kept(f.path))

\* The name of a written single-file torrent.
ListedSingleName(d) == IF d.nameUtf8 # "" THEN d.nameUtf8 ELSE d.name

\* The info dictionaries whose bytes the state holds.
WrittenInfos == { d \in InfoDescs : EncodeInfo(d) = infoBytes }

Extracted == { m \in {metaA, metaB} : m # NoMeta }

\* C34 as stated: a single-file torrent yields exactly one entry named by
\* name; a multi-file torrent yields one entry per element of files, in the
\* original order, with the path segments joined by '/'; the index of each
\* entry is its position in the file list of the torrent.
FileListHoldsEveryFile ==
    \A d \in WrittenInfos : \A m \in Extracted :
        /\ m.ok
        /\ ~d.hasFiles =>
              /\ Len(m.videoFiles) = 1
              /\ m.videoFiles[1].name = ListedSingleName(d)
        /\ (d.hasFiles /\ d.length < 0) =>
              /\ Len(m.videoFiles) = Len(d.files)
              /\ \A k \in 1..Len(m.videoFiles) :
                    /\ m.videoFiles[k].index = k - 1
                    /\ m.videoFiles[k].name = ListedName(d.files[k])

\* C34, amended: the list holds the video files only.  With a positive
\* length it has exactly one entry, index 0, named by name.utf-8 or else by
\* name, if that name is a video file name, and none otherwise; without one
\* it has one entry per element of files whose listed name is a video file
\* name, in the original order, each with its position in files as index.
FileListHoldsVideoFiles ==
    \A d \in WrittenInfos : \A m \in Extracted :
        /\ m.ok
        /\ d.length > 0 =>
              IF isVideoFile(ListedSingleName(d))
              THEN /\ Len(m.videoFiles) = 1
                   /\ m.videoFiles[1].index = 0
                   /\ m.videoFiles[1].name = ListedSingleName(d)
              ELSE m.videoFiles = <<>>
        /\ (d.length <= 0 /\ ~d.hasFiles) => m.videoFiles = <<>>
        /\ (d.length <= 0 /\ d.hasFiles) =>
              LET videoAt == { k \in 1..Len(d.files) : isVideoFile(ListedName(d.files[k])) }
              IN /\ { e.index + 1 : e \in { m.videoFiles[j] : j \in 1..Len(m.videoFiles) } }
                        = videoAt
                 /\ Len(m.videoFiles) = Cardinality(videoAt)
                 /\ \A j \in 1..Len(m.videoFiles) :
                       /\ j > 1 => m.videoFiles[j - 1].index < m.videoFiles[j].index
                       /\ m.videoFiles[j].name = ListedName(d.files[m.videoFiles[j].index + 1])
                       /\ m.videoFiles[j].length = d.files[m.videoFiles[j].index + 1].length

\* Witness of C34: a torrent with a video file after a file that is none was
\* extracted; the video file is listed under its joined path with index 1.
VideoAfterOtherFileWitness ==
    \E d \in WrittenInfos :
        /\ d.hasFiles /\ Len(d.files) = 2
        /\ ~isVideoFile(ListedName(d.files[1]))
        /\ metaA.ok
        /\ metaA.videoFiles = <<[index |-> 1, name |-> "d/b.MP4", length |-> 9]>>

\* Witness of C9: both torrents were parsed, they differ in their announce
\* value and in the position of the info key.
InfoHashWitness ==
    /\ metaA.ok /\ metaB.ok
    /\ metaA.announce # metaB.announce
    /\ metaA.infoStart # metaB.infoStart
    /\ metaA.infoHash = metaB.infoHash

(***************************************************************************)
(* File selection: src/unnamed/part_001                                    *)
(* The episode patterns are regular expressions; they are evaluated here   *)
(* by a small matcher over sets of positions.  A position p means that the *)
(* first p characters of the text are consumed.  File names are ASCII.     *)
(***************************************************************************)
Lit(str) == [t |-> "lit", s |-> str]
Cls(chars) == [t |-> "cls", set |-> chars]
Star(r) == [t |-> "star", r |-> r]
Opt(r) == [t |-> "opt", r |-> r]
Alt(rs) == [t |-> "alt", rs |-> rs]
Cat(rs) == [t |-> "cat", rs |-> rs]
WordBoundary == [t |-> "wb"]

DigitChars == {"0", "1", "2", "3", "4", "5", "6", "7", "8", "9"}
LowerChars == {"a", "b", "c", "d", "e", "f", "g", "h", "i", "j", "k", "l", "m",
               "n", "o", "p", "q", "r", "s", "t", "u", "v", "w", "x", "y", "z"}
\* \w
WordChars == DigitChars \cup LowerChars \cup UpperChars \cup {"_"}
\* \s over the model's alphabet
Whitespace == Cls({" "})
\* [._\- ]
Separator == Cls({".", "_", "-", " "})
\* \d{1,2}
OneOrTwoDigits == Cat(<<Cls(DigitChars), Opt(Cls(DigitChars))>>)


\* \b at position p of text
AtWordBoundary(text, p) ==
    LET before == p >= 1 /\ CharAt(text, p) \in WordChars
        after == p < Len(text) /\ CharAt(text, p + 1) \in WordChars
    IN before # after

RECURSIVE Ends(_, _, _)
RECURSIVE CatEnds(_, _, _)
RECURSIVE StarEnds(_, _, _)

\* positions reachable from P by matching the parts of a concatenation
CatEnds(rs, text, P) ==
    IF rs = <<>> \/ P = {} THEN P
    ELSE CatEnds(Tail(rs), text, Ends(Head(rs), text, P))

\* positions reachable from P by matching r zero or more times
StarEnds(r, text, P) ==
    LET more == Ends(r, text, P) \ P IN
    IF more = {} THEN P ELSE StarEnds(r, text, P \cup more)

\* positions where a match of re can end when it starts at a position of P
Ends(re, text, P) ==
    CASE re.t = "lit" ->
           { p + Len(re.s) : p \in { q \in P : /\ q + Len(re.s) <= Len(text)
                                               /\ SubSeq(text, q + 1, q + Len(re.s)) = re.s } }
      [] re.t = "cls" ->
           { p + 1 : p \in { q \in P : q < Len(text) /\ CharAt(text, q + 1) \in re.set } }
      [] re.t = "wb" -> { p \in P : AtWordBoundary(text, p) }
      [] re.t = "opt" -> P \cup Ends(re.r, text, P)
      [] re.t = "star" -> StarEnds(re.r, text, P)
      [] re.t = "alt" -> UNION { Ends(re.rs[k], text, P) : k \in 1..Len(re.rs) }
      [] re.t = "cat" -> CatEnds(re.rs, text, P)

\* re.test(text)
RegexTest(re, text) == Ends(re, text, 0..Len(text)) # {}


\* text.padStart(2, '0')
PadStart2(text) == IF Len(text) < 2 THEN "0" \o text ELSE text


readFileName(file) == file.name
\* '' stands for a file without id, file_id and fileId
readFileId(file) == file.id
readFileSize(file) == file.size
pickFileArray(item) == item.files


\* the `direct` patterns of isEpisodeFileMatch; the alternatives written with
\* é / ó cannot match an ASCII name and are left out
EpisodeDirectPatterns(season, episode) ==
    LET s == PadStart2(NumberToString(season))
        e == PadStart2(NumberToString(episode))
        sn == NumberToString(season)
        en == NumberToString(episode)
        ws == Star(Whitespace)
        zeros == Star(Lit("0"))
    IN <<
      Cat(<<WordBoundary, Lit("s" \o s), ws, Opt(Separator), Lit("e" \o e), WordBoundary>>),
      Cat(<<WordBoundary, Lit(sn), ws, Lit("x"), ws, zeros, Lit(en), WordBoundary>>),
      Cat(<<WordBoundary, Lit("season"), ws, zeros, Lit(sn), ws,
            Alt(<<Lit("episode"), Lit("ep"), Lit("e")>>), ws, zeros, Lit(en), WordBoundary>>),
      Cat(<<WordBoundary, zeros, Lit(sn), ws, Star(Separator), Lit("evad"), ws,
            Star(Separator), zeros, Lit(en), ws, Star(Separator),
            Alt(<<Lit("resz"), Lit("epizod")>>), WordBoundary>>)
    >>

\* the `range` patterns of isEpisodeFileMatch
EpisodeRangePatterns(season, episode) ==
    LET s == PadStart2(NumberToString(season))
        e == PadStart2(NumberToString(episode))
        sn == NumberToString(season)
        en == NumberToString(episode)
        ws == Star(Whitespace)
        zeros == Star(Lit("0"))
    IN <<
      Cat(<<WordBoundary, Lit("s" \o s), ws, Opt(Separator), Lit("e" \o e), ws, Lit("-"),
            ws, Opt(Lit("e")), OneOrTwoDigits, WordBoundary>>),
      Cat(<<WordBoundary, Lit(sn), ws, Lit("x"), ws, zeros, Lit(en), ws, Lit("-"), ws,
            OneOrTwoDigits, WordBoundary>>),
      Cat(<<WordBoundary, Lit("s" \o s), ws, Opt(Separator), Lit("e" \o e), ws, Lit("e"),
            OneOrTwoDigits, WordBoundary>>)
    >>

\* [...].some((re) => re.test(text))
SomeMatch(patterns, text) == \E k \in 1..Len(patterns) : RegexTest(patterns[k], text)

EpisodeDirect(name, season, episode) ==
    SomeMatch(EpisodeDirectPatterns(season, episode), ToLowerCase(name))

EpisodeRange(name, season, episode) ==
    SomeMatch(EpisodeRangePatterns(season, episode), ToLowerCase(name))

\* Mutant: the multi-episode range patterns are not consulted.
isEpisodeFileMatch_noRange(name, season, episode) ==
    /\ season # 0 /\ episode # 0
    /\ name # ""
    /\ EpisodeDirect(name, season, episode)

isEpisodeFileMatch(name, season, episode) ==
    /\ season # 0 /\ episode # 0
    /\ name # ""
    /\ EpisodeDirect(name, season, episode)
    /\ ~EpisodeRange(name, season, episode)

RECURSIVE InsertBySize(_, _)
\* insert file behind every file that is at least as large (a stable sort)
InsertBySize(sorted, file) ==
    IF sorted = <<>> THEN <<file>>
    ELSE IF Head(sorted).size >= file.size
         THEN <<Head(sorted)>> \o InsertBySize(Tail(sorted), file)
         ELSE <<file>> \o sorted

RECURSIVE InsertAll(_, _)
InsertAll(sorted, rest) ==
    IF rest = <<>> THEN sorted ELSE InsertAll(InsertBySize(sorted, Head(rest)), Tail(rest))

\* Mutant: the candidates are left in list order.
SortBySizeDesc_unsorted(files) == files

\* files.sort((a, b) => b.size - a.size)
SortBySizeDesc(files) == InsertAll(<<>>, files)

\* .map((file) => ({ id, name, size }))
Candidates(files) ==
    [k \in 1..Len(files) |-> [id |-> readFileId(files[k]), name |-> readFileName(files[k]),
                              size |-> readFileSize(files[k])]]

\* name === preferred || name.endsWith(preferred) || preferred.endsWith(name)
PreferredNameMatch(fileName, preferred) ==
    LET name == ToLowerCase(fileName) IN
    /\ name # ""
    /\ (name = preferred \/ EndsWith(name, preferred) \/ EndsWith(preferred, name))

\* the id of the first file satisfying Keep, '' when there is none
FirstWhere(files, Keep(_)) ==
    LET hits == { k \in 1..Len(files) : Keep(files[k]) } IN
    IF hits = {} THEN ""
    ELSE readFileId(files[CHOOSE k \in hits : \A j \in hits : k <= j])

chooseFileIdFromTorrent(item, preferredName, season, episode) ==
    LET files == pickFileArray(item)
        preferred == ToLowerCase(preferredName)
        IsEpisodeMatch(file) ==
            file.id # "" /\ isVideoFile(file.name) /\ isEpisodeFileMatch(file.name, season, episode)
        episodeMatches == SelectSeq(Candidates(files), IsEpisodeMatch)
        IsPreferred(file) ==
            PreferredNameMatch(readFileName(file), preferred) /\ readFileId(file) # ""
        IsVideo(file) == file.id # "" /\ isVideoFile(file.name)
        videos == SelectSeq(Candidates(files), IsVideo)
        HasId(file) == readFileId(file) # ""
    IN
    IF Len(files) = 0 THEN ""
    ELSE IF season # 0 /\ episode # 0
    THEN (IF Len(episodeMatches) > 0 THEN SortBySizeDesc(episodeMatches)[1].id ELSE "")
    ELSE IF preferred # "" /\ FirstWhere(files, IsPreferred) # ""
    THEN FirstWhere(files, IsPreferred)
    ELSE IF Len(videos) > 0 THEN SortBySizeDesc(videos)[1].id
    ELSE FirstWhere(files, HasId)

(***************************************************************************)
(* SpecSelect: chooseFileIdFromTorrent on every file list of at most       *)
(* MaxFiles files.  The file at position k has id k, or no id.             *)
(***************************************************************************)
MaxFiles == 2

FileNames ==
    {"Show.S01E01.mkv", "Show.S01E01-E02.mkv", "Show.S01E02.mkv", "Show.S01E01.srt",
     "readme.txt", "movie.mkv"}

FileSizes == {100, 500}

FileLists ==
    UNION { { fs \in [1..n -> [id : {"", "1", "2", "3"}, name : FileNames, size : FileSizes]] :
                \A k \in 1..n : fs[k].id \in {"", NumberToString(k)} } : n \in 0..MaxFiles }

\* (preferredName, season, episode); 0 stands for an absent (null) value
SelectionCriteria ==
    {<<"", 0, 0>>, <<"MOVIE.mkv", 0, 0>>, <<"", 1, 1>>, <<"", 1, 2>>, <<"", 1, 0>>,
     <<"movie.mkv", 1, 1>>, <<"Show.S01E01.srt", 0, 0>>, <<"S01E02.mkv", 0, 0>>}

InitSelect ==
    /\ selItem \in [files : FileLists]
    /\ \E c \in SelectionCriteria :
          selPreferred = c[1] /\ selSeason = c[2] /\ selEpisode = c[3]
    /\ selResult = NotChosen
    /\ InitBencodeIdle /\ InitTorrentIdle /\ InitResolveIdle /\ InitAppIdle

ChooseFile ==
    /\ selResult = NotChosen
    /\ selResult' = chooseFileIdFromTorrent(selItem, selPreferred, selSeason, selEpisode)
    /\ UNCHANGED <<selItem, selPreferred, selSeason, selEpisode, notSelectVars>>

NextSelect == ChooseFile

SpecSelect == InitSelect /\ [][NextSelect]_vars

\* positions of the files a request can select from
FilePositions == 1..Len(selItem.files)
EpisodeRequested == selSeason # 0 /\ selEpisode # 0

\* video files whose name matches the episode pattern and no range pattern
EpisodeFilePositions ==
    { k \in FilePositions :
        /\ isVideoFile(selItem.files[k].name)
        /\ EpisodeDirect(selItem.files[k].name, selSeason, selEpisode)
        /\ ~EpisodeRange(selItem.files[k].name, selSeason, selEpisode) }

VideoFilePositions == { k \in FilePositions : isVideoFile(selItem.files[k].name) }

WithId(positions) == { k \in positions : selItem.files[k].id # "" }

\* the result is the id of a largest file among positions
IsLargestOf(positions) ==
    \E k \in positions :
        /\ selItem.files[k].id = selResult
        /\ \A j \in positions : selItem.files[j].size <= selItem.files[k].size

\* no file that has an id carries the preferred name
NoPreferredMatch ==
    \A k \in FilePositions :
        ~(/\ selPreferred # ""
          /\ PreferredNameMatch(selItem.files[k].name, ToLowerCase(selPreferred))
          /\ selItem.files[k].id # "")

\* the id of the first file that has one, '' when no file has an id
IsFirstFileWithId ==
    IF WithId(FilePositions) = {} THEN selResult = ""
    ELSE \E k \in WithId(FilePositions) :
            /\ selItem.files[k].id = selResult
            /\ \A j \in WithId(FilePositions) : k <= j

\* C5 as stated: with season and episode given, the result is the id of the
\* largest video file whose name matches the episode pattern and no range
\* pattern, and none when there is no such file.
EpisodeRequestPicksLargestMatch ==
    (selResult # NotChosen /\ EpisodeRequested) =>
        IF EpisodeFilePositions = {} THEN selResult = ""
        ELSE IsLargestOf(EpisodeFilePositions)

\* C5 amended: with season and episode given, the result is the id of the
\* largest among the video files that have an id and whose name matches the
\* episode pattern and no range pattern; it is none when there is no such
\* file, whatever other files the list holds.
EpisodeRequestPicksLargestMatchWithId ==
    (selResult # NotChosen /\ EpisodeRequested) =>
        IF WithId(EpisodeFilePositions) = {} THEN selResult = ""
        ELSE IsLargestOf(WithId(EpisodeFilePositions))

\* Witness of C5: a larger file that matches a range pattern loses against
\* the smaller file of the requested episode.
EpisodeRequestWitness ==
    /\ selResult = "1" /\ selSeason = 1 /\ selEpisode = 1
    /\ Len(selItem.files) = 2
    /\ selItem.files[1] = [id |-> "1", name |-> "Show.S01E01.mkv", size |-> 100]
    /\ selItem.files[2] = [id |-> "2", name |-> "Show.S01E01-E02.mkv", size |-> 500]

\* C6 as stated: without season/episode and without a matching preferred
\* name the result is the largest video file; it is the first file that has
\* an id only when the list holds no video file at all.
NoEpisodePicksLargestVideo ==
    (selResult # NotChosen /\ ~EpisodeRequested /\ NoPreferredMatch) =>
        IF VideoFilePositions # {} THEN IsLargestOf(VideoFilePositions)
        ELSE IsFirstFileWithId

\* C6 amended: without season/episode and without a matching preferred name
\* the result is the largest video file that has an id; it is the first file
\* that has an id only when the list holds no video file that has an id.
NoEpisodePicksLargestVideoWithId ==
    (selResult # NotChosen /\ ~EpisodeRequested /\ NoPreferredMatch) =>
        IF WithId(VideoFilePositions) # {} THEN IsLargestOf(WithId(VideoFilePositions))
        ELSE IsFirstFileWithId

\* the video files that have an id and carry the preferred name
PreferredVideoPositions ==
    { k \in WithId(VideoFilePositions) :
        PreferredNameMatch(selItem.files[k].name, ToLowerCase(selPreferred)) }

\* C32: without season/episode and with a preferred file name, the name is
\* matched (equal without regard to case, or one name a suffix of the other)
\* against the video files only, and the first video file in list order that
\* matches is chosen; a file that is no video is not chosen for its name, so
\* without a matching video file the result is the largest video file, or
\* the first file with an id when there is no video file (files without an
\* id are passed over, as in C5 and C6)
PreferredMatchAmongVideosOnly ==
    (selResult # NotChosen /\ ~EpisodeRequested /\ selPreferred # "") =>
        IF PreferredVideoPositions # {}
        THEN \E k \in PreferredVideoPositions :
                /\ selItem.files[k].id = selResult
                /\ \A j \in PreferredVideoPositions : k <= j
        ELSE IF WithId(VideoFilePositions) # {} THEN IsLargestOf(WithId(VideoFilePositions))
        ELSE IsFirstFileWithId

\* Witness of C6: the largest video is returned although a text file comes
\* first in the list.
NoEpisodeWitness ==
    /\ selResult = "2" /\ ~EpisodeRequested /\ selPreferred = ""
    /\ Len(selItem.files) = 2
    /\ selItem.files[1].name = "readme.txt" /\ selItem.files[1].id = "1"
    /\ isVideoFile(selItem.files[2].name)

(***************************************************************************)
(* The TorBox resolver: resolveTorboxLinkWithWait of the torbox client.    *)
(* Remote replies are records; '' stands for an absent field.              *)
(***************************************************************************)
\* text.includes(part)
Includes(text, part) ==
    \E i \in 1..(Len(text) - Len(part) + 1) : SubSeq(text, i, i + Len(part) - 1) = part

RECURSIVE UpperAll(_)
UpperAll(text) ==
    IF text = "" THEN ""
    ELSE LET c == CharAt(text, 1) IN
         (IF c \in LowerChars
          THEN LET k == CHOOSE j \in 1..Len(LowerAlphabet) : CharAt(LowerAlphabet, j) = c
               IN CharAt(UpperAlphabet, k)
          ELSE c) \o UpperAll(Tail(text))

\* text.toUpperCase()
ToUpperCase(text) ==
    IF \A k \in 1..Len(text) : CharAt(text, k) \notin LowerChars THEN text
    ELSE UpperAll(text)

RECURSIVE TrimStart(_)
TrimStart(text) ==
    IF text # "" /\ CharAt(text, 1) \in Whitespace.set THEN TrimStart(Tail(text)) ELSE text

RECURSIVE TrimEnd(_)
TrimEnd(text) ==
    IF text # "" /\ CharAt(text, Len(text)) \in Whitespace.set
    THEN TrimEnd(SubSeq(text, 1, Len(text) - 1)) ELSE text

\* text.trim()
Trim(text) == TrimEnd(TrimStart(text))

HexChars == DigitChars \cup {"a", "b", "c", "d", "e", "f", "A", "B", "C", "D", "E", "F"}

\* text.match(/xt=urn:btih:([a-fA-F0-9]{40})/i): the captured digits of the
\* leftmost match in lower case, '' without a match
extractInfoHash(value) ==
    LET prefix == "xt=urn:btih:"
        starts == { i \in 1..(Len(value) - Len(prefix) - 39) :
                      /\ CharAt(value, i) \in {"x", "X"}
                      /\ ToLowerCase(SubSeq(value, i, i + Len(prefix) - 1)) = prefix
                      /\ \A k \in 0..39 : CharAt(value, i + Len(prefix) + k) \in HexChars }
    IN IF starts = {} THEN ""
       ELSE LET first == CHOOSE i \in starts : \A j \in starts : i <= j
            IN ToLowerCase(SubSeq(value, first + Len(prefix), first + Len(prefix) + 39))

\* the first candidate that is not blank, as it is (not trimmed)
FirstNonBlank(candidates) ==
    LET hits == { k \in 1..Len(candidates) : Trim(candidates[k]) # "" } IN
    IF hits = {} THEN "" ELSE candidates[CHOOSE k \in hits : \A j \in hits : k <= j]

pickTorrentId(value) == FirstNonBlank(<<value.torrent_id, value.id>>)

pickQueuedId(value) == FirstNonBlank(<<value.queued_id>>)

\* an Error as thrown by fetchJsonWithAuth: its message and the parsed body
\* in .response (fields error and detail)
ErrorOf(message, respError, respDetail) ==
    [message |-> message, respError |-> respError, respDetail |-> respDetail]

readTorboxErrorCode(error) == ToUpperCase(Trim(error.respError))

isTorboxQueueLimitError(error) ==
    readTorboxErrorCode(error) \in {"ACTIVE_LIMIT", "COOLDOWN_LIMIT", "MONTHLY_LIMIT"}

RECURSIVE JoinParts(_)
\* parts.join(' | ')
JoinParts(parts) ==
    IF Len(parts) = 0 THEN ""
    ELSE IF Len(parts) = 1 THEN parts[1]
    ELSE parts[1] \o " | " \o JoinParts(Tail(parts))

isCreateAlreadyExistsError(error) ==
    LET lowered == [k \in 1..3 |->
                      ToLowerCase(<<error.message, error.respDetail, error.respError>>[k])]
        NotEmpty(part) == part # ""
        parts == JoinParts(SelectSeq(lowered, NotEmpty))
    IN /\ parts # ""
       /\ \/ Includes(parts, "already")
          \/ Includes(parts, "exist")
          \/ Includes(parts, "duplicate")
          \/ Includes(parts, "409")

\* the catch of the create call without the retry: any other error is
\* passed over and the listing follows
createErrorAction_noRetry(error) ==
    IF isCreateAlreadyExistsError(error) THEN "poll"
    ELSE IF isTorboxQueueLimitError(error) THEN "throw"
    ELSE "poll"

\* the catch block of the first createTorrentFromMagnet call without the
\* "already exists" branch
createErrorAction_noAbsorb(error) ==
    IF isTorboxQueueLimitError(error) THEN "throw" ELSE "retry"

\* the catch block of the first createTorrentFromMagnet call
createErrorAction(error) ==
    IF isCreateAlreadyExistsError(error) THEN "poll"
    ELSE IF isTorboxQueueLimitError(error) THEN "throw"
    ELSE "retry"

readTorboxState(item) == ToLowerCase(item.download_state)

statusError(item) ==
    \/ readTorboxState(item) = "error"
    \/ (item.active = "false" /\ item.download_finished = "false")

\* lines 541-549, for rows without download_present and without a progress
\* field (their progress reads as 0)
isTorboxReady(item) ==
    \/ item.download_finished = "true"
    \/ \E word \in {"completed", "complete", "finished", "ready"} :
          Includes(readTorboxState(item), word)

\* lines 553-558: a row with a queued id, or one neither ready nor failed
statusDownloading(item) ==
    \/ Trim(item.queued_id) # ""
    \/ (~isTorboxReady(item) /\ ~statusError(item))

\* the hash a listed job is compared by: its hash field, else its magnet's
JobHashMatches(item, target) ==
    \/ (item.hash # "" /\ ToLowerCase(item.hash) = target)
    \/ (item.magnet # "" /\ extractInfoHash(item.magnet) = target)

\* a lookup that takes the first job when neither the id nor the hash matches
findTorrentInList_firstOnMiss(list, infoHash, torrentId) ==
    LET targetId == Trim(torrentId)
        byId == { k \in 1..Len(list) : pickTorrentId(list[k]) = targetId }
        target == ToLowerCase(infoHash)
        byHash == { k \in 1..Len(list) : JobHashMatches(list[k], target) }
    IN IF Len(list) = 0 THEN 0
       ELSE IF targetId # "" /\ byId # {} THEN CHOOSE k \in byId : \A j \in byId : k <= j
       ELSE IF byHash # {} THEN CHOOSE k \in byHash : \A j \in byHash : k <= j
       ELSE 1

\* the position of the job findTorrentInList returns, 0 for null
findTorrentInList(list, infoHash, torrentId) ==
    LET targetId == Trim(torrentId)
        byId == { k \in 1..Len(list) : pickTorrentId(list[k]) = targetId }
        target == ToLowerCase(infoHash)
        byHash == { k \in 1..Len(list) : JobHashMatches(list[k], target) }
    IN IF Len(list) = 0 THEN 0
       ELSE IF targetId # "" /\ byId # {} THEN CHOOSE k \in byId : \A j \in byId : k <= j
       ELSE IF target = "" THEN 1
       ELSE IF byHash # {} THEN CHOOSE k \in byHash : \A j \in byHash : k <= j
       ELSE 0

SUBTITLE_EXTENSIONS == {".srt", ".vtt"}

isSubtitleFile(name) ==
    LET lowered == ToLowerCase(name) IN
    \E ext \in SUBTITLE_EXTENSIONS : EndsWith(lowered, ext)

\* /\b(w1|w2|...)\b/
WholeWord(words) ==
    Cat(<<WordBoundary, Alt([k \in 1..Len(words) |-> Lit(words[k])]), WordBoundary>>)

\* the languages detectSubtitleLang tells apart, in the order it tests them
SubtitleLanguages ==
    << [lang |-> "hu", words |-> <<"hu", "hun", "hungarian", "magyar">>],
       [lang |-> "en", words |-> <<"en", "eng", "english">>],
       [lang |-> "de", words |-> <<"de", "ger", "german", "deutsch">>],
       [lang |-> "fr", words |-> <<"fr", "fre", "french">>],
       [lang |-> "es", words |-> <<"es", "spa", "spanish">>],
       [lang |-> "it", words |-> <<"it", "ita", "italian">>],
       [lang |-> "pl", words |-> <<"pl", "pol", "polish">>],
       [lang |-> "ro", words |-> <<"ro", "ron", "romanian">>],
       [lang |-> "cs", words |-> <<"cs", "cze", "czech">>],
       [lang |-> "sk", words |-> <<"sk", "slk", "slovak">>] >>

detectSubtitleLang(name) ==
    LET text == ToLowerCase(name)
        hits == { k \in 1..Len(SubtitleLanguages) :
                    RegexTest(WholeWord(SubtitleLanguages[k].words), text) }
    IN IF hits = {} THEN "en"
       ELSE SubtitleLanguages[CHOOSE k \in hits : \A j \in hits : k <= j].lang

\* preferred.replace(/\.[a-z0-9]{2,5}$/i, ''): the text without its extension
WithoutExtension(text) ==
    LET dots == { i \in 1..Len(text) :
                    /\ CharAt(text, i) = "."
                    /\ Len(text) - i \in 2..5
                    /\ \A k \in (i + 1)..Len(text) :
                          CharAt(text, k) \in DigitChars \cup LowerChars \cup UpperChars }
    IN IF dots = {} THEN text
       ELSE SubSeq(text, 1, (CHOOSE i \in dots : \A j \in dots : i <= j) - 1)

\* the order of the characters of file names under localeCompare: blank and
\* punctuation, then digits, then letters
CollationOrder == " _-.0123456789abcdefghijklmnopqrstuvwxyz"

CollationRank(c) ==
    IF \E k \in 1..Len(CollationOrder) : CharAt(CollationOrder, k) = c
    THEN CHOOSE k \in 1..Len(CollationOrder) : CharAt(CollationOrder, k) = c
    ELSE 0

RECURSIVE KeyLess(_, _)
\* the first text sorts before the second, both without capitals
KeyLess(a, b) ==
    IF b = "" THEN FALSE
    ELSE IF a = "" THEN TRUE
    ELSE IF CharAt(a, 1) = CharAt(b, 1) THEN KeyLess(Tail(a), Tail(b))
    ELSE CollationRank(CharAt(a, 1)) < CollationRank(CharAt(b, 1))

\* a.localeCompare(b) < 0: letters compare without their case first, and a
\* small letter sorts before its capital when nothing else differs
LocaleLess(a, b) ==
    LET la == ToLowerCase(a)
        lb == ToLowerCase(b)
    IN IF la # lb THEN KeyLess(la, lb)
       ELSE \E i \in 1..Len(a) :
              /\ SubSeq(a, 1, i - 1) = SubSeq(b, 1, i - 1)
              /\ CharAt(a, i) # CharAt(b, i)
              /\ CharAt(a, i) \in LowerChars

\* the score pickSubtitleFiles gives a subtitle file
SubtitleScore(name, videoStem) ==
    LET lowered == ToLowerCase(name) IN
      (IF videoStem # "" /\ Includes(lowered, videoStem) THEN 4 ELSE 0)
    + (IF RegexTest(WholeWord(<<"hu", "hun", "magyar">>), lowered) THEN 3 ELSE 0)
    + (IF RegexTest(WholeWord(<<"en", "eng", "english">>), lowered) THEN 2 ELSE 0)

\* the comparator of the sort: higher score first, then by name
SubtitleBefore(a, b) ==
    \/ a.score > b.score
    \/ (a.score = b.score /\ LocaleLess(a.name, b.name))

RECURSIVE InsertSubtitle(_, _)
InsertSubtitle(sorted, file) ==
    IF sorted = <<>> THEN <<file>>
    ELSE IF SubtitleBefore(file, Head(sorted)) THEN <<file>> \o sorted
    ELSE <<Head(sorted)>> \o InsertSubtitle(Tail(sorted), file)

RECURSIVE SortSubtitles(_, _)
SortSubtitles(sorted, rest) ==
    IF rest = <<>> THEN sorted
    ELSE SortSubtitles(InsertSubtitle(sorted, Head(rest)), Tail(rest))

pickSubtitleFiles(item, preferredName, limit) ==
    LET files == pickFileArray(item)
        videoStem == WithoutExtension(ToLowerCase(preferredName))
        IsSubtitle(file) == readFileId(file) # "" /\ isSubtitleFile(readFileName(file))
        subtitles == SelectSeq(files, IsSubtitle)
        scored == [k \in 1..Len(subtitles) |->
                     [id |-> readFileId(subtitles[k]), name |-> readFileName(subtitles[k]),
                      score |-> SubtitleScore(readFileName(subtitles[k]), videoStem)]]
        sorted == SortSubtitles(<<>>, scored)
    IN SubSeq(sorted, 1, Min(limit, Len(sorted)))

(***************************************************************************)
(* SpecResolve: one call of resolveTorboxLinkWithWait against a remote     *)
(* service that answers every request with any of the replies below.      *)
(***************************************************************************)
HashA == "aaaaaaaaaaaaaaaaaaaaaaaaaaaaaaaaaaaaaaaa"
HashAUpper == "AAAAAAAAAAAAAAAAAAAAAAAAAAAAAAAAAAAAAAAA"
HashB == "bbbbbbbbbbbbbbbbbbbbbbbbbbbbbbbbbbbbbbbb"
HashC == "cccccccccccccccccccccccccccccccccccccccc"
MagnetA == "magnet:?xt=urn:btih:" \o HashAUpper \o "&dn=Show"

\* the longest listing the remote service returns
MaxJobs == 2

\* an episode with its subtitle files, one of them without an id
EpisodeWithSubtitles ==
    << [id |-> "2", name |-> "Show.S01E02.mkv", size |-> 100],
       [id |-> "3", name |-> "Show.S01E02.srt", size |-> 1],
       [id |-> "", name |-> "Show.S01E02.hun.srt", size |-> 1],
       [id |-> "4", name |-> "show.s01e02.SRT", size |-> 1],
       [id |-> "5", name |-> "Other.hun.vtt", size |-> 1] >>

TwoEpisodes ==
    << [id |-> "1", name |-> "Show.S01E01.mkv", size |-> 500],
       [id |-> "2", name |-> "Show.S01E02.mkv", size |-> 100] >>

JobOf(id, hash, magnet, files, state, active, finished) ==
    [id |-> id, torrent_id |-> "", queued_id |-> "", hash |-> hash, magnet |-> magnet,
     files |-> files, download_state |-> state, active |-> active,
     download_finished |-> finished]

\* the rows the remote service lists; a row's id determines its torrent
Jobs ==
    { JobOf("9", HashA, "", TwoEpisodes, "completed", "true", "true"),
      JobOf("9", "", MagnetA, TwoEpisodes, "cached", "undefined", "undefined"),
      JobOf("9", HashAUpper, "", <<>>, "downloading", "true", "false"),
      JobOf("9", HashA, "", TwoEpisodes, "downloading", "true", "false"),
      JobOf("9", HashA, "", <<>>, "error", "undefined", "undefined"),
      JobOf("9", HashA, "", TwoEpisodes, "error", "undefined", "undefined"),
      JobOf("9", HashA, "", <<>>, "stalled", "false", "false"),
      JobOf("", HashA, "", TwoEpisodes, "completed", "true", "true"),
      JobOf("9", HashA, "", EpisodeWithSubtitles, "completed", "true", "true"),
      JobOf("7", HashB, "", <<[id |-> "1", name |-> "movie.mkv", size |-> 900]>>,
            "completed", "true", "true"),
      JobOf("5", HashC, "", <<>>, "downloading", "true", "false") }

JobTorrent(item) == IF item.hash # "" THEN ToLowerCase(item.hash) ELSE extractInfoHash(item.magnet)

\* listings of at most MaxJobs rows, one row per torrent
JobLists ==
    { list \in UNION { [1..n -> Jobs] : n \in 0..MaxJobs } :
        \A i, j \in 1..Len(list) : i # j => JobTorrent(list[i]) # JobTorrent(list[j]) }

Created(torrentId, queuedId) ==
    [ok |-> TRUE, reply |-> [torrent_id |-> torrentId, id |-> "", queued_id |-> queuedId]]
Failed(error) == [ok |-> FALSE, error |-> error]

\* what createTorrentFromMagnet settles with
CreateOutcomes ==
    { Created("9", ""), Created("7", ""), Created("", "q1"),
      Failed(ErrorOf("TorBox request failed (500)", "", "")),
      Failed(ErrorOf("TorBox request failed (400)", "ACTIVE_LIMIT", "")),
      Failed(ErrorOf("TorBox request failed (429)", " cooldown_limit", "")),
      Failed(ErrorOf("TorBox request failed (400)", "", "Torrent already exists.")),
      Failed(ErrorOf("TorBox request failed (409)", "ACTIVE_LIMIT", "")) }

ListErrors == { ErrorOf("TorBox request failed (500)", "", "") }
LinkErrors == { ErrorOf("TorBox requestdl failed (500)", "", "") }
Links == { "https://cdn.example/video" }

\* how long a remote call takes: no time, or longer than the shortest wait
Latencies == { 0, 6000 }

Args(apiKey, magnet, infoHash, fileName, season, episode, maxWaitMs, skipCreate) ==
    [apiKey |-> apiKey, magnet |-> magnet, infoHash |-> infoHash, fileName |-> fileName,
     season |-> season, episode |-> episode, includeSubtitles |-> FALSE,
     maxWaitMs |-> [type |-> "int", n |-> maxWaitMs], skipCreate |-> skipCreate]

WithSubtitles(args) == [args EXCEPT !.includeSubtitles = TRUE]

\* the calls made: subtitles are wanted by the second and the third
ResolveArgs ==
    { Args("key", MagnetA, "", "", 0, 0, 1000, FALSE),
      WithSubtitles(Args("key", MagnetA, HashA, "Show.S01E02.mkv", 0, 0, 1000, TRUE)),
      WithSubtitles(Args("key", MagnetA, HashA, "", 1, 2, 1000, TRUE)),
      Args("key", MagnetA, HashAUpper, "", 1, 2, 7000, FALSE),
      Args("key", MagnetA, HashA, "", 1, 2, 1000, TRUE),
      Args("", MagnetA, HashA, "", 0, 0, 1000, FALSE),
      Args("key", "", HashA, "", 0, 0, 1000, FALSE),
      Args("key", "magnet:?dn=Show", "", "", 0, 0, 1000, FALSE) }

\* calls with the shorter of the waits the resolve route asks for (30
\* seconds), with a wait of 0, with one that is not a number, and with none
WindowArgs ==
    { Args("key", MagnetA, HashA, "", 0, 0, ms, FALSE) : ms \in {0, 30000} }
    \cup { [Args("key", MagnetA, HashA, "", 0, 0, 0, FALSE) EXCEPT !.maxWaitMs = v] :
             v \in {NaN, Undefined} }

MaxListCalls == 4

\* what requestDownloadLink settles with when asked for a subtitle file
SubtitleLinks == { "https://cdn.example/subtitle" }
SubtitleReplies ==
    { [ok |-> TRUE, url |-> url] : url \in SubtitleLinks }
    \cup { Failed(error) : error \in LinkErrors }

\* Promise.race of a promise that settles with the reply after the latency
\* and a timer of ms milliseconds that rejects
withTimeout(reply, latency, ms) ==
    IF latency < ms THEN reply ELSE Failed(ErrorOf("timeout", "", ""))

\* a try statement that records the failed request as a subtitle without link
afterSubtitleLink_keepsFailed(subtitles, subtitle, result) ==
    Append(subtitles, [id |-> "tb-sub-" \o subtitle.id,
                       lang |-> detectSubtitleLang(subtitle.name),
                       url |-> IF result.ok THEN result.url ELSE ""])

\* lines 686-697: the try statement around one subtitle link request
afterSubtitleLink(subtitles, subtitle, result) ==
    IF result.ok
    THEN Append(subtitles, [id |-> "tb-sub-" \o subtitle.id,
                            lang |-> detectSubtitleLang(subtitle.name),
                            url |-> result.url])
    ELSE subtitles

\* new Error(message) with err.code = code
Thrown(code, error) == [kind |-> "error", code |-> code, cause |-> error]
Returned(url) == [kind |-> "url", url |-> url, subtitles |-> <<>>]

InitResolve ==
    /\ rArgs \in ResolveArgs
    /\ rPc = "start" /\ rNow = 0 /\ rTargetHash = "" /\ rDeadline = 0
    /\ rTorrentId = "" /\ rQueuedId = "" /\ rCreatedAttempted = FALSE
    /\ rRequested = NoRequest /\ rOutcome = Pending /\ rCreateResults = <<>>
    /\ rLastList = NoList /\ rListCalls = 0 /\ rSleepCalls = 0
    /\ rUrl = "" /\ rCandidates = <<>> /\ rIdx = 1 /\ rSubtitles = <<>>
    /\ rSubtitleResults = <<>>
    /\ InitBencodeIdle /\ InitTorrentIdle /\ InitSelectIdle /\ InitAppIdle

Settle(outcome) == rOutcome' = outcome /\ rPc' = "done"

\* a validation that looks at the API key only
missingInput_keyOnly(apiKey, targetHash, magnet) ==
    IF apiKey = "" THEN "missing TorBox API key" ELSE ""

\* lines 617-619: the message of the error thrown for the arguments, '' when
\* none is thrown
missingInput(apiKey, targetHash, magnet) ==
    IF apiKey = "" THEN "missing TorBox API key"
    ELSE IF targetHash = "" THEN "missing infoHash"
    ELSE IF magnet = "" THEN "missing magnet"
    ELSE ""

\* a loop head that creates the job whatever skipCreate says
createWanted_ignoresSkip(skipCreate, createdAttempted) == ~createdAttempted

\* line 627: the job is created in the first pass, unless skipCreate is set
createWanted(skipCreate, createdAttempted) == ~skipCreate /\ ~createdAttempted

\* a loop head that does not note the attempt
markAttempted_notMarked(createdAttempted, wanted) == createdAttempted

\* line 628: createdAttempted = true in the pass that creates the job
markAttempted(createdAttempted, wanted) == createdAttempted \/ wanted

\* lines 616-628: validation, the deadline and the first pass of the loop head
\* a window without the floor of five seconds
pollingWindow_noFloor(maxWaitMs) ==
    LET n == NumberOf(IF maxWaitMs = Undefined THEN [type |-> "int", n |-> 600000]
                      ELSE maxWaitMs)
    IN IF n.type = "int" /\ n.n # 0 THEN n.n ELSE 600000

\* lines 613 and 625: Math.max(5_000, Number(maxWaitMs) || 600_000), where
\* maxWaitMs is 600_000 when the caller gave none
pollingWindow(maxWaitMs) ==
    LET n == NumberOf(IF maxWaitMs = Undefined THEN [type |-> "int", n |-> 600000]
                      ELSE maxWaitMs)
    IN Max(5000, IF n.type = "int" /\ n.n # 0 THEN n.n ELSE 600000)

Enter ==
    /\ rPc = "start"
    /\ UNCHANGED <<rArgs, rNow, rTorrentId, rQueuedId, rRequested, rCreateResults,
                   rLastList, rListCalls, rSleepCalls, subtitleVars, notResolveVars>>
    /\ rTargetHash' = ToLowerCase(IF rArgs.infoHash # "" THEN rArgs.infoHash
                                   ELSE extractInfoHash(rArgs.magnet))
    /\ IF missingInput(rArgs.apiKey, rTargetHash', rArgs.magnet) # ""
       THEN Settle(Thrown("", ErrorOf(missingInput(rArgs.apiKey, rTargetHash', rArgs.magnet),
                                      "", "")))
            /\ UNCHANGED <<rDeadline, rCreatedAttempted>>
       ELSE /\ rDeadline' = rNow + pollingWindow(rArgs.maxWaitMs)
            /\ rCreatedAttempted' = markAttempted(FALSE, createWanted(rArgs.skipCreate, FALSE))
            /\ rPc' = IF createWanted(rArgs.skipCreate, FALSE) THEN "create" ELSE "list"
            /\ UNCHANGED rOutcome

\* lines 629-640: the first createTorrentFromMagnet call settles
CreateReturns ==
    /\ rPc = "create"
    /\ \E out \in CreateOutcomes, latency \in Latencies :
        /\ rNow' = rNow + latency
        /\ rCreateResults' = Append(rCreateResults, out)
        /\ IF out.ok
           THEN /\ rTorrentId' = pickTorrentId(out.reply)
                /\ rQueuedId' = pickQueuedId(out.reply)
                /\ rPc' = "list"
                /\ UNCHANGED rOutcome
           ELSE /\ UNCHANGED <<rTorrentId, rQueuedId>>
                /\ IF createErrorAction(out.error) = "poll"
                   THEN rPc' = "list" /\ UNCHANGED rOutcome
                   ELSE IF createErrorAction(out.error) = "throw"
                   THEN Settle(Thrown(IF readTorboxErrorCode(out.error) # ""
                                      THEN readTorboxErrorCode(out.error)
                                      ELSE "ACTIVE_LIMIT", out.error))
                   ELSE rPc' = "retry" /\ UNCHANGED rOutcome
    /\ UNCHANGED <<rArgs, rTargetHash, rDeadline, rCreatedAttempted, rRequested, rLastList,
                   rListCalls, rSleepCalls, subtitleVars, notResolveVars>>

\* lines 642-652: the retry without the optional name settles
RetryReturns ==
    /\ rPc = "retry"
    /\ \E out \in CreateOutcomes, latency \in Latencies :
        /\ rNow' = rNow + latency
        /\ rCreateResults' = Append(rCreateResults, out)
        /\ IF out.ok
           THEN /\ rTorrentId' = pickTorrentId(out.reply)
                /\ rQueuedId' = pickQueuedId(out.reply)
                /\ rPc' = "list"
                /\ UNCHANGED rOutcome
           ELSE /\ UNCHANGED <<rTorrentId, rQueuedId>>
                /\ IF isTorboxQueueLimitError(out.error)
                   THEN Settle(Thrown(IF readTorboxErrorCode(out.error) # ""
                                      THEN readTorboxErrorCode(out.error)
                                      ELSE "ACTIVE_LIMIT", out.error))
                   ELSE rPc' = "list" /\ UNCHANGED rOutcome
    /\ UNCHANGED <<rArgs, rTargetHash, rDeadline, rCreatedAttempted, rRequested, rLastList,
                   rListCalls, rSleepCalls, subtitleVars, notResolveVars>>

\* a loop that lists again at once when the job is not in the listing
afterList_notFoundLoops(found, linkable, failed) ==
    IF ~found THEN "list"
    ELSE IF linkable THEN "requestdl"
    ELSE IF failed THEN "done"
    ELSE "sleep"

\* lines 665-721: where a pass goes after the listing: to the sleep when the
\* job is not in it, to the link request when the job has an id and a file
\* was chosen, to the end when the job has failed, else to the sleep
afterList(found, linkable, failed) ==
    IF ~found THEN "sleep"
    ELSE IF linkable THEN "requestdl"
    ELSE IF failed THEN "done"
    ELSE "sleep"

\* lines 657-721: listMyTorrents answers with a listing; the job is looked
\* up, a file is chosen and the link is requested, or the call sleeps
ListReturns ==
    /\ rPc = "list"
    /\ \E list \in JobLists :
        \E found \in {findTorrentInList(list, rTargetHash, rTorrentId)} :
        /\ rListCalls' = rListCalls + 1
        /\ rLastList' = [called |-> TRUE, list |-> list, found |-> found]
        /\ IF found = 0
           THEN /\ rPc' = afterList(FALSE, FALSE, FALSE)
                /\ rSleepCalls' = rSleepCalls + 1
                /\ UNCHANGED <<rTorrentId, rRequested, rOutcome>>
           ELSE LET chosen == list[found]
                    torrentId == IF rTorrentId # "" THEN rTorrentId
                                 ELSE pickTorrentId(chosen)
                IN
                \E fileId \in {chooseFileIdFromTorrent(chosen, rArgs.fileName,
                                                       rArgs.season, rArgs.episode)} :
                /\ rTorrentId' = torrentId
                /\ IF torrentId # "" /\ fileId # ""
                   THEN /\ rPc' = afterList(TRUE, TRUE, statusError(chosen))
                        /\ rRequested' = [torrentId |-> torrentId, fileId |-> fileId]
                        /\ UNCHANGED <<rSleepCalls, rOutcome>>
                   ELSE IF statusError(chosen)
                   THEN /\ Settle(Thrown("TORBOX_DOWNLOAD_ERROR",
                                         ErrorOf("TorBox torrent errored during download",
                                                 "", "")))
                        /\ UNCHANGED <<rSleepCalls, rRequested>>
                   \* lines 709-721: every remaining branch sleeps 2000 ms
                   ELSE /\ rPc' = afterList(TRUE, FALSE, FALSE)
                        /\ rSleepCalls' = rSleepCalls + 1
                        /\ UNCHANGED <<rRequested, rOutcome>>
    /\ \E latency \in Latencies : rNow' = rNow + latency
    /\ UNCHANGED <<rArgs, rTargetHash, rDeadline, rQueuedId, rCreatedAttempted,
                   rCreateResults, subtitleVars, notResolveVars>>

\* lines 657-663: listMyTorrents rejects; nothing catches it
ListFails ==
    /\ rPc = "list"
    /\ \E error \in ListErrors, latency \in Latencies :
        /\ rNow' = rNow + latency
        /\ Settle(Thrown("", error))
    /\ rListCalls' = rListCalls + 1
    /\ UNCHANGED <<rArgs, rTargetHash, rDeadline, rTorrentId, rQueuedId, rCreatedAttempted, rRequested,
                   rCreateResults, rLastList, rSleepCalls, subtitleVars, notResolveVars>>

\* lines 678-682: requestDownloadLink answers with the link; without
\* subtitles wanted, or with no subtitle file to ask for, the call returns
RequestDlReturns ==
    /\ rPc = "requestdl"
    /\ \E url \in Links, latency \in Latencies :
        /\ rNow' = rNow + latency
        /\ rUrl' = url
        /\ IF ~rArgs.includeSubtitles
           THEN Settle(Returned(url)) /\ UNCHANGED rCandidates
           ELSE \E candidates \in {pickSubtitleFiles(rLastList.list[rLastList.found],
                                                      rArgs.fileName, 1)} :
                  /\ rCandidates' = candidates
                  /\ IF candidates = <<>>
                     THEN Settle(Returned(url))
                     ELSE rPc' = "subtitle" /\ UNCHANGED rOutcome
    /\ UNCHANGED <<rArgs, rTargetHash, rDeadline, rTorrentId, rQueuedId, rCreatedAttempted, rRequested,
                   rCreateResults, rLastList, rListCalls, rSleepCalls, rIdx, rSubtitles,
                   rSubtitleResults, notResolveVars>>

\* lines 684-697: one pass of the subtitle loop, from the link request to
\* the end of the try statement, and the return once the loop is over
SubtitleDlSettles ==
    /\ rPc = "subtitle"
    /\ \E reply \in SubtitleReplies, latency \in Latencies :
        \E result \in {withTimeout(reply, latency, 1200)} :
        /\ rNow' = rNow + Min(latency, 1200)
        /\ rSubtitles' = afterSubtitleLink(rSubtitles, rCandidates[rIdx], result)
        /\ rSubtitleResults' = Append(rSubtitleResults,
                                      [id |-> rCandidates[rIdx].id, result |-> result])
        /\ rIdx' = rIdx + 1
        /\ IF rIdx' > Len(rCandidates)
           THEN Settle([kind |-> "url", url |-> rUrl, subtitles |-> rSubtitles'])
           ELSE UNCHANGED <<rPc, rOutcome>>
    /\ UNCHANGED <<rArgs, rTargetHash, rDeadline, rTorrentId, rQueuedId, rCreatedAttempted, rRequested,
                   rCreateResults, rLastList, rListCalls, rSleepCalls, rUrl, rCandidates,
                   notResolveVars>>

\* line 678: requestDownloadLink rejects; nothing catches it
RequestDlFails ==
    /\ rPc = "requestdl"
    /\ \E error \in LinkErrors, latency \in Latencies :
        /\ rNow' = rNow + latency
        /\ Settle(Thrown("", error))
    /\ UNCHANGED <<rArgs, rTargetHash, rDeadline, rTorrentId, rQueuedId, rCreatedAttempted, rRequested,
                   rCreateResults, rLastList, rListCalls, rSleepCalls, subtitleVars, notResolveVars>>

\* lines 626, 668-726: the 2000 ms timer fires and the loop head is evaluated
SleepDone ==
    /\ rPc = "sleep"
    /\ rNow' = rNow + 2000
    /\ IF rNow' < rDeadline
       THEN /\ rListCalls < MaxListCalls
            /\ rPc' = IF createWanted(rArgs.skipCreate, rCreatedAttempted) THEN "create"
                      ELSE "list"
            /\ rCreatedAttempted' =
                 markAttempted(rCreatedAttempted,
                               createWanted(rArgs.skipCreate, rCreatedAttempted))
            /\ rLastList' = NoList /\ UNCHANGED rOutcome
       ELSE /\ Settle(Thrown("TORBOX_NOT_READY",
                             ErrorOf("TorBox not ready or file not found", "", "")))
            /\ UNCHANGED <<rLastList, rCreatedAttempted>>
    /\ UNCHANGED <<rArgs, rTargetHash, rDeadline, rTorrentId, rQueuedId, rRequested,
                   rCreateResults, rListCalls, rSleepCalls, subtitleVars, notResolveVars>>

NextResolve ==
    \/ Enter
    \/ CreateReturns
    \/ RetryReturns
    \/ ListReturns
    \/ ListFails
    \/ RequestDlReturns
    \/ RequestDlFails
    \/ SubtitleDlSettles
    \/ SleepDone

SpecResolve == InitResolve /\ [][NextResolve]_vars

\* every remote call settles and every timer fires
SpecResolveFair == SpecResolve /\ WF_vars(NextResolve)

(***************************************************************************)
(* SpecWindow: the same call, also with the waits of WindowArgs; a remote  *)
(* call may linger for ten minutes before it settles.                      *)
(***************************************************************************)
Lingering == { 600000 }

InitWindow ==
    /\ rArgs \in ResolveArgs \cup WindowArgs
    /\ rPc = "start" /\ rNow = 0 /\ rTargetHash = "" /\ rDeadline = 0
    /\ rTorrentId = "" /\ rQueuedId = "" /\ rCreatedAttempted = FALSE
    /\ rRequested = NoRequest /\ rOutcome = Pending /\ rCreateResults = <<>>
    /\ rLastList = NoList /\ rListCalls = 0 /\ rSleepCalls = 0
    /\ rUrl = "" /\ rCandidates = <<>> /\ rIdx = 1 /\ rSubtitles = <<>>
    /\ rSubtitleResults = <<>>
    /\ InitBencodeIdle /\ InitTorrentIdle /\ InitSelectIdle /\ InitAppIdle

\* time passes while createTorrentFromMagnet or listMyTorrents is awaited
Lingers ==
    /\ rPc \in {"create", "retry", "list"}
    /\ rNow < rDeadline
    /\ \E d \in Lingering : rNow' = rNow + d
    /\ UNCHANGED <<rArgs, rPc, rTargetHash, rDeadline, rTorrentId, rQueuedId,
                   rCreatedAttempted, rRequested, rOutcome, rCreateResults, rLastList,
                   rListCalls, rSleepCalls, subtitleVars, notResolveVars>>

NextWindow == NextResolve \/ Lingers

SpecWindow == InitWindow /\ [][NextWindow]_vars

(***************************************************************************)
(* Properties of the resolver                                              *)
(***************************************************************************)
CreateFailed(k) == k <= Len(rCreateResults) /\ ~rCreateResults[k].ok

\* C2: a createTorrentFromMagnet failure classified as a queue limit
\* (ACTIVE_LIMIT, COOLDOWN_LIMIT, MONTHLY_LIMIT) rejects the call at once with
\* that error: no further create call, no listing and no sleep.
QueueLimitRejectsImmediately ==
    \A k \in 1..Len(rCreateResults) :
        (CreateFailed(k) /\ isTorboxQueueLimitError(rCreateResults[k].error))
        => /\ Len(rCreateResults) = k
           /\ rPc = "done"
           /\ rOutcome.kind = "error"
           /\ rOutcome.cause = rCreateResults[k].error
           /\ rListCalls = 0
           /\ rSleepCalls = 0

SelectedFile(job) ==
    chooseFileIdFromTorrent(job, rArgs.fileName, rArgs.season, rArgs.episode)

\* a listed job of the target torrent that has an id and a selectable file
Resolvable(job) ==
    /\ JobHashMatches(job, rTargetHash)
    /\ pickTorrentId(job) # ""
    /\ job.files # <<>>
    /\ SelectedFile(job) # ""

\* C4: when the listing holds a job of the target infoHash whose file list
\* holds a file the selector picks, the link is requested for exactly that
\* job id and that file id, and the call returns the link obtained.
LinkRequestedForMatchingJob ==
    \A k \in 1..Len(rLastList.list) :
        Resolvable(rLastList.list[k])
        => /\ rPc \in {"requestdl", "subtitle", "done"}
           /\ rRequested = [torrentId |-> pickTorrentId(rLastList.list[k]),
                            fileId |-> SelectedFile(rLastList.list[k])]
           /\ rPc = "done" =>
                \/ (rOutcome.kind = "url" /\ rOutcome.url \in Links)
                \/ (rOutcome.kind = "error" /\ rOutcome.cause \in LinkErrors)

FirstCreateAlreadyExists ==
    CreateFailed(1) /\ isCreateAlreadyExistsError(rCreateResults[1].error)

\* C10: when createTorrentFromMagnet fails with an "already exists" error the
\* call does not fail with it and makes no second create call; it goes on to
\* the listing with no job id, so the job is found by its infoHash, and a
\* link is requested only for a file of a listed job of that infoHash.
AlreadyExistsIsAbsorbed ==
    FirstCreateAlreadyExists
    => /\ Len(rCreateResults) = 1
       /\ rPc # "retry"
       /\ rOutcome.kind = "error" => rOutcome.cause # rCreateResults[1].error
       /\ rPc = "done" => rListCalls >= 1
       /\ rListCalls = 0 => rTorrentId = ""
       /\ rRequested # NoRequest =>
            \E k \in 1..Len(rLastList.list) :
                /\ JobHashMatches(rLastList.list[k], rTargetHash)
                /\ rRequested.fileId = SelectedFile(rLastList.list[k])

\* the call ends with a link after the create call reported "already exists"
AlreadyExistsWitness ==
    /\ FirstCreateAlreadyExists
    /\ rListCalls >= 1
    /\ rOutcome.kind = "url"

\* the first create call failed with an error of neither kind
FirstCreateOtherError ==
    /\ CreateFailed(1)
    /\ ~isCreateAlreadyExistsError(rCreateResults[1].error)
    /\ ~isTorboxQueueLimitError(rCreateResults[1].error)

\* the call has gone on to the listing
ProceedsToPolling == rPc = "list" \/ rListCalls >= 1

\* C11 as stated: after a first create failure of neither kind the create
\* call is made once more, and whatever the retry yields the call goes on to
\* the listing
RetriedOnceThenPolls ==
    FirstCreateOtherError
    => /\ Len(rCreateResults) <= 2
       /\ Len(rCreateResults) = 1 => rPc = "retry"
       /\ Len(rCreateResults) = 2 => ProceedsToPolling

\* C11, amended: after a first create failure of neither kind the create
\* call is made once more; a queue-limit failure of the retry rejects the
\* call with that error and without any listing, and every other outcome of
\* the retry is followed by the listing
RetriedOnceThenPollsUnlessQueueLimit ==
    FirstCreateOtherError
    => /\ Len(rCreateResults) <= 2
       /\ Len(rCreateResults) = 1 => rPc = "retry"
       /\ Len(rCreateResults) = 2 =>
            IF CreateFailed(2) /\ isTorboxQueueLimitError(rCreateResults[2].error)
            THEN /\ rPc = "done"
                 /\ rOutcome.kind = "error"
                 /\ rOutcome.cause = rCreateResults[2].error
                 /\ rListCalls = 0
            ELSE ProceedsToPolling

\* the retry failed as well, with an error of neither kind, and the call
\* went on to find the job and returned a link
RetriedOnceWitness ==
    /\ FirstCreateOtherError
    /\ CreateFailed(2)
    /\ ~isTorboxQueueLimitError(rCreateResults[2].error)
    /\ rListCalls >= 1
    /\ rOutcome.kind = "url"

\* the job the last listing was searched for was found in a terminal failure
\* state
FoundInTerminalFailure ==
    /\ rLastList.called
    /\ rLastList.found # 0
    /\ statusError(rLastList.list[rLastList.found])

\* C12: when the listing holds the job in a terminal failure state (state
\* error, or neither active nor finished) the call rejects with
\* TORBOX_DOWNLOAD_ERROR at once: no link is requested and no listing or
\* sleep follows
TerminalFailureRejects ==
    FoundInTerminalFailure
    => /\ rPc = "done"
       /\ rOutcome.kind = "error"
       /\ rOutcome.code = "TORBOX_DOWNLOAD_ERROR"
       /\ rRequested = NoRequest

\* the arguments pass the checks of lines 617-619
ValidArgs == rArgs.apiKey # "" /\ rArgs.magnet # "" /\ rTargetHash # ""

\* the call ended with a link or with one of the three failures
EndedAsClaimed ==
    \/ rOutcome.kind = "url"
    \/ /\ rOutcome.kind = "error"
       /\ \/ rOutcome.code \in {"TORBOX_DOWNLOAD_ERROR", "TORBOX_NOT_READY"}
          \/ isTorboxQueueLimitError(rOutcome.cause)

\* C14: with every remote call settling and time advancing, a call with
\* valid arguments ends, with a link or with a queue-limit, download or
\* not-ready failure, and no listing is started once the deadline has passed
EndsAndStopsListingAtDeadline ==
    /\ <>(rPc = "done")
    /\ [](rPc = "done" /\ ValidArgs => EndedAsClaimed)
    /\ [][rPc # "list" /\ rPc' = "list" => rNow' < rDeadline']_vars

\* the subtitle link requests that ended with a link
SucceededSubtitleRequests == { k \in DOMAIN rSubtitleResults : rSubtitleResults[k].result.ok }

\* C15: with subtitles wanted, once the link of the video file is obtained
\* the call can only return it: a subtitle link request that fails or takes
\* 1200 ms or longer is passed over, and the subtitles returned are those,
\* and only those, whose request ended with a link
SubtitleFailuresAreIgnored ==
    (rArgs.includeSubtitles /\ rUrl # "")
    => /\ rPc \in {"subtitle", "done"}
       /\ rPc = "done" =>
            /\ rOutcome.kind = "url"
            /\ rOutcome.url = rUrl
            /\ Len(rOutcome.subtitles) = Cardinality(SucceededSubtitleRequests)
            /\ \A j \in DOMAIN rOutcome.subtitles :
                 \E k \in SucceededSubtitleRequests :
                    /\ rOutcome.subtitles[j].id = "tb-sub-" \o rSubtitleResults[k].id
                    /\ rOutcome.subtitles[j].url = rSubtitleResults[k].result.url

\* the call returned the video link without subtitles after the subtitle
\* link request had run into the timeout
SubtitleTimeoutWitness ==
    /\ rArgs.includeSubtitles
    /\ rPc = "done"
    /\ rOutcome.kind = "url"
    /\ rOutcome.url \in Links
    /\ rOutcome.subtitles = <<>>
    /\ \E k \in DOMAIN rSubtitleResults :
         /\ ~rSubtitleResults[k].result.ok
         /\ rSubtitleResults[k].result.error.message = "timeout"

\* the API key or the magnet is missing, or no infoHash is given and the
\* magnet yields none
InputMissing ==
    \/ rArgs.apiKey = ""
    \/ rArgs.magnet = ""
    \/ (rArgs.infoHash = "" /\ extractInfoHash(rArgs.magnet) = "")

\* C17: a call without API key, without magnet or without infoHash (given,
\* or taken from the magnet) rejects at once with an error of its own: no
\* createTorrentFromMagnet, listMyTorrents or requestDownloadLink call is
\* made and nothing is waited for
MissingInputRejectsBeforeAnyCall ==
    (InputMissing /\ rPc # "start")
    => /\ rPc = "done"
       /\ rOutcome.kind = "error"
       /\ rOutcome.cause.message \in
            {"missing TorBox API key", "missing infoHash", "missing magnet"}
       /\ rCreateResults = <<>>
       /\ rListCalls = 0
       /\ rRequested = NoRequest
       /\ rSleepCalls = 0

\* a call with API key and magnet was rejected because the magnet names no
\* infoHash and none was given
MissingInfoHashWitness ==
    /\ rArgs.apiKey # "" /\ rArgs.magnet # "" /\ rArgs.infoHash = ""
    /\ rPc = "done"
    /\ rOutcome.kind = "error"
    /\ rOutcome.cause.message = "missing infoHash"
    /\ rCreateResults = <<>> /\ rListCalls = 0

\* the call ended with the error of a listMyTorrents or requestDownloadLink
\* call
EndedOnRemoteFailure ==
    /\ rPc = "done"
    /\ rOutcome.kind = "error"
    /\ rOutcome.cause \in ListErrors \cup LinkErrors

\* C16: a failure of listMyTorrents or of requestDownloadLink while polling
\* does not end the call: the call ends with a link, or with one of its own
\* failures, and never with the error of such a request
RemoteFailureKeepsPolling == ~EndedOnRemoteFailure

(***************************************************************************)
(* Spec: the HTTP application of createApp.  One action is one turn of the *)
(* event loop: a request arriving, or a reply of a collaborator together   *)
(* with the continuations it resumes.  Time advances between turns.        *)
(***************************************************************************)
\* a resolved URL that is kept for ten minutes only
RESOLVE_CACHE_TTL_MS_tenMinutes == 1000 * 60 * 10

RESOLVE_CACHE_TTL_MS == 1000 * 60 * 20
STREAM_SELECTION_TTL_MS == 1000 * 60 * 90
TORBOX_MYLIST_TTL_MS == 1000 * 15

\* the most resolve requests received that resolveCache does not answer
MaxRequests == 2
\* the most resolve requests received that resolveCache answers
MaxHits == 1
\* the most often the clock advances
MaxClockSteps == 3
\* the most stream requests received along with resolve requests
MaxStreams == 1
\* the most stream requests received on their own
MaxLoneStreams == 3
\* by how much the clock advances between stream requests: 5 and 15 seconds
ClockTicks == { 1000 * 5, 1000 * 15 }
\* by how much the clock advances at once: 10 and 70 minutes
ClockAdvances == { 1000 * 60 * 10, 1000 * 60 * 70 }

\* String(value).trim(), '' unless it starts with magnet:? in any case
normalizeMagnet(value) ==
    LET magnet == Trim(value) IN
    IF Len(magnet) >= 8 /\ ToLowerCase(SubSeq(magnet, 1, 8)) = "magnet:?" THEN magnet ELSE ""

\* the value of the first xt parameter of the magnet URL, '' without one
XtParam(magnet) ==
    LET starts == { i \in 9..(Len(magnet) - 2) :
                      /\ CharAt(magnet, i) = "x"
                      /\ SubSeq(magnet, i, i + 2) = "xt="
                      /\ CharAt(magnet, i - 1) \in {"?", "&"} }
    IN IF starts = {} THEN ""
       ELSE LET first == CHOOSE i \in starts : \A j \in starts : i <= j
                stops == { j \in (first + 3)..Len(magnet) : CharAt(magnet, j) = "&" }
                stop == IF stops = {} THEN Len(magnet) + 1
                        ELSE CHOOSE j \in stops : \A k \in stops : j <= k
            IN SubSeq(magnet, first + 3, stop - 1)

extractInfoHashFromMagnet(magnet) ==
    LET xt == XtParam(Trim(magnet))
        raw == Trim(IF Len(xt) >= 9 /\ ToLowerCase(SubSeq(xt, 1, 9)) = "urn:btih:"
                    THEN SubSeq(xt, 10, Len(xt)) ELSE xt)
    IN IF Len(raw) = 40 /\ \A k \in 1..40 : CharAt(raw, k) \in HexChars
       THEN ToLowerCase(raw) ELSE ""

\* the accounts that ask for streams
StreamTokens == {"T"}
MagnetB == "magnet:?xt=urn:btih:" \o HashB
\* what the search yields: two rows and one without a magnet, or only the
\* latter
SearchResults ==
    { << [id |-> "1", magnet |-> MagnetA, infoHash |-> "", fileName |-> "Show.S01E02.mkv"],
         [id |-> "2", magnet |-> "", infoHash |-> "", fileName |-> "Show.S01E02.avi"],
         [id |-> "3", magnet |-> MagnetB, infoHash |-> HashB, fileName |-> "movie.mkv"] >>,
      << [id |-> "2", magnet |-> "", infoHash |-> "", fileName |-> "Show.S01E02.avi"] >> }
\* the stream ids asked for
ParsedIds == { [season |-> 1, episode |-> 2] }
\* the keys crypto.randomBytes yields, in the order it yields them
KeyOrder == <<"k1", "k2">>

\* a loop of pruneResolveCache: the map without its expired entries
pruneResolveCache(cache, now) ==
    [k \in DOMAIN cache |->
        IF cache[k] # None /\ cache[k].expiresAt <= now THEN None ELSE cache[k]]

\* the entry createStreamSelection stores
createStreamSelection(token, item, parsedId, cached) ==
    [token |-> token, torrentId |-> Trim(item.id), magnet |-> normalizeMagnet(item.magnet),
     infoHash |-> ToLowerCase(item.infoHash), fileName |-> item.fileName,
     season |-> parsedId.season, episode |-> parsedId.episode, cached |-> cached,
     expiresAt |-> clock + STREAM_SELECTION_TTL_MS]

\* line 458: a row with a magnet and an infoHash
Usable(item) ==
    /\ normalizeMagnet(item.magnet) # ""
    /\ (item.infoHash # "" \/ extractInfoHashFromMagnet(normalizeMagnet(item.magnet)) # "")

\* the keys crypto.randomBytes has not yielded yet, in the order it will
FreeKeys ==
    LET NotDrawn(k) == k \notin keysDrawn IN SelectSeq(KeyOrder, NotDrawn)

RECURSIVE RowsAwaited(_)
\* the number of rows that stream requests still at work will want a key for
RowsAwaited(received) ==
    IF received = <<>> THEN 0
    ELSE (IF Head(received).pc = "mylist" THEN Len(Head(received).rows) ELSE 0)
         + RowsAwaited(Tail(received))

\* lines 438-463: the selection cache once every usable row found has got a
\* selection under a key of its own
withSelections(selections, token, rows, parsedId, cached) ==
    [k \in SelectionKeys |->
        IF \E n \in 1..Len(rows) : FreeKeys[n] = k
        THEN createStreamSelection(token, rows[CHOOSE n \in 1..Len(rows) : FreeKeys[n] = k],
                                   parsedId, cached)
        ELSE selections[k]]

\* line 480: the URL a stream answer gives for a selection, from the path on
resolveUrl(token, selectionKey) == "/" \o token \o "/resolve/" \o selectionKey

\* lines 455-494: the URLs of the answer, one for each usable row, each with
\* the key its selection was stored under
StreamUrls(token, rows) == [n \in 1..Len(rows) |-> resolveUrl(token, FreeKeys[n])]

\* a stream request: what it was asked with and the usable rows its search
\* found, where its handler stands, the URLs it answered with, whether it
\* called torboxMyListFetcher, and as history when it arrived and what
\* listing had last been stored
StreamOf(token, rows, parsedId, pc, urls, fetched, stored) ==
    [token |-> token, rows |-> rows, parsedId |-> parsedId, pc |-> pc, urls |-> urls,
     fetched |-> fetched, at |-> clock, stored |-> stored]

\* GET /:token/stream/:type/:id.json, lines 236 and 393-423, with the reply
\* of the search arriving in the same turn: the caches are pruned and the
\* job listing of the account is looked up; with a listing cached the
\* handler goes on to the selections (the availability check answers in the
\* same turn), without one it calls torboxMyListFetcher and awaits it
StreamArrives(limit) ==
    /\ Len(streams) < limit
    /\ \E token \in StreamTokens, results \in SearchResults, parsedId \in ParsedIds,
          cached \in {"true"} :
        LET creds == decodeConfig(token)
            key == hashTorboxKey(creds.torboxApiKey)
            pruned == pruneResolveCache(torboxMyListCache, clock)
            selections == pruneResolveCache(streamSelectionCache, clock)
        IN
        \E rows \in { SelectSeq(results, Usable) } :
        /\ Len(rows) + RowsAwaited(streams) <= Len(FreeKeys)
        /\ resolveCache' = pruneResolveCache(resolveCache, clock)
        /\ torboxMyListCache' = pruned
        /\ IF creds.torboxApiKey = ""
           THEN /\ streams' = Append(streams, StreamOf(token, rows, parsedId, "done",
                                                       <<>>, FALSE, None))
                /\ streamSelectionCache' = selections
                /\ UNCHANGED keysDrawn
           ELSE IF pruned[key] # None
           THEN /\ streams' = Append(streams, StreamOf(token, rows, parsedId, "done",
                                                       StreamUrls(token, rows), FALSE,
                                                       lastListed[key]))
                /\ streamSelectionCache' =
                     withSelections(selections, token, rows, parsedId, cached)
                /\ keysDrawn' = keysDrawn \cup { FreeKeys[n] : n \in 1..Len(rows) }
           ELSE /\ streams' = Append(streams, StreamOf(token, rows, parsedId, "mylist",
                                                       <<>>, TRUE, lastListed[key]))
                /\ streamSelectionCache' = selections
                /\ UNCHANGED keysDrawn
    /\ UNCHANGED <<clock, clockSteps, resolveInFlight, lastListed, requests, invocations,
                   lastStore, staleSeen, notAppVars>>

StreamRequest == StreamArrives(MaxStreams)

\* lines 417-463: torboxMyListFetcher answers with the listing, which is
\* cached for the account, or it fails or takes 1500 ms; the handler goes on
\* to the selections (the availability check answers in the same turn)
MyListSettles ==
    /\ \E s \in 1..Len(streams), listed \in BOOLEAN, cached \in {"true"} :
        LET stream == streams[s]
            key == hashTorboxKey(decodeConfig(stream.token).torboxApiKey)
        IN
        /\ stream.pc = "mylist"
        /\ torboxMyListCache' =
             IF listed
             THEN [torboxMyListCache EXCEPT ![key] =
                     [torrents |-> <<>>, expiresAt |-> clock + TORBOX_MYLIST_TTL_MS]]
             ELSE torboxMyListCache
        /\ lastListed' = IF listed THEN [lastListed EXCEPT ![key] = [at |-> clock]]
                         ELSE lastListed
        /\ streamSelectionCache' =
             withSelections(streamSelectionCache, stream.token, stream.rows,
                            stream.parsedId, cached)
        /\ keysDrawn' = keysDrawn \cup { FreeKeys[n] : n \in 1..Len(stream.rows) }
        /\ streams' = [streams EXCEPT ![s] =
                          [@ EXCEPT !.pc = "done",
                                    !.urls = StreamUrls(stream.token, stream.rows)]]
    /\ UNCHANGED <<clock, clockSteps, resolveCache, resolveInFlight, requests, invocations,
                   lastStore, staleSeen, notAppVars>>

\* a response: its status and its location and retry-after headers
Respond(status, location) == [status |-> status, location |-> location, retryAfter |-> ""]

\* a moment relative to a store in resolveCache: before any store (never),
\* less than 20 minutes after it (fresh), or later (stale)
Since(stored, now) ==
    IF stored = None THEN "never"
    ELSE IF now < stored.at + 20 * 60 * 1000 THEN "fresh"
    ELSE "stale"
NoResponse == Respond(0, "")

\* a resolve request: what it was asked with (its method, and the token and
\* the last segment of its path), the selection under that segment when it
\* arrived, where its handler stands and what it answered;
\* at/stored/since/first/overlap are history: when it arrived, what had last
\* been stored for its key, whether it is the first to arrive since that
\* expired, and the requests for its key that were being handled when it
\* arrived
Request(method, token, selectionKey, selection, pc, response, stored, first, overlap) ==
    [method |-> method,
     token |-> token, selectionKey |-> selectionKey, selection |-> selection, pc |-> pc,
     inv |-> 0, started |-> FALSE, response |-> response, at |-> clock,
     stored |-> stored, since |-> Since(stored, clock), first |-> first,
     overlap |-> overlap]

KeyOf(request) == ResolveKey(request.token, request.selectionKey)

\* a lookup that takes a selection of any account
selectionMissing_anyToken(selection, token, now) ==
    selection = None \/ selection.expiresAt <= now

\* line 310: no selection under the key, an expired one, or one of another
\* account
selectionMissing(selection, token, now) ==
    selection = None \/ selection.expiresAt <= now \/ selection.token # token

\* Map.get: the entry under the key, none for a key the map never held
Lookup(map, key) == IF key \in DOMAIN map THEN map[key] ELSE None

\* a route that does not read resolveCache
cacheHit_never(cached, now) == FALSE

\* line 303: an entry that has not expired and holds a url
cacheHit(cached, now) == cached # None /\ cached.expiresAt > now /\ cached.url # ""

\* a request for /:token/resolve/:selectionKey, lines 236, 288-339 and 505:
\* up to the answer, or to the await of the availability check; the route
\* takes GET requests only, any other method falls through to the 404 at the
\* end of the handler
ResolveArrives(methods, segments) ==
    /\ Len(requests) < MaxRequests + MaxHits
    /\ \E method \in methods, token \in Tokens, selectionKey \in segments :
        LET resolveKey == ResolveKey(token, selectionKey)
            creds == decodeConfig(token)
            cache == pruneResolveCache(resolveCache, clock)
            selections == pruneResolveCache(streamSelectionCache, clock)
            cached == Lookup(cache, resolveKey)
            selection == Lookup(selections, selectionKey)
            magnet == normalizeMagnet(selection.magnet)
            infoHash == ToLowerCase(IF selection.infoHash # "" THEN selection.infoHash
                                    ELSE extractInfoHashFromMagnet(magnet))
            stored == Lookup(lastStore, resolveKey)
            since == Since(stored, clock)
            overlap == { q \in 1..Len(requests) :
                           requests[q].pc # "done" /\ KeyOf(requests[q]) = resolveKey }
            Received(pc, response) ==
                Request(method, token, selectionKey, selection, pc, response,
                        stored, resolveKey \in DOMAIN staleSeen => ~staleSeen[resolveKey],
                        overlap)
            hit == method = "GET" /\ creds.torboxApiKey # "" /\ cacheHit(cached, clock)
            Hits(q) == requests[q].pc = "done" /\ requests[q].inv = 0
                       /\ requests[q].response.status = 302
            hits == Cardinality({ q \in 1..Len(requests) : Hits(q) })
        IN
        /\ IF hit THEN hits < MaxHits ELSE Len(requests) - hits < MaxRequests
        /\ resolveCache' = cache
        /\ streamSelectionCache' = selections
        /\ torboxMyListCache' = pruneResolveCache(torboxMyListCache, clock)
        /\ staleSeen' = IF resolveKey \in DOMAIN staleSeen
                        THEN [staleSeen EXCEPT ![resolveKey] = @ \/ since = "stale"]
                        ELSE staleSeen
        /\ requests' = Append(requests,
             IF method # "GET" THEN Received("done", Respond(404, ""))
             ELSE IF creds.torboxApiKey = "" THEN Received("done", Respond(400, ""))
             ELSE IF hit
             THEN Received("done", Respond(302, cached.url))
             ELSE IF selectionMissing(selection, token, clock)
             THEN Received("done", Respond(404, ""))
             ELSE IF magnet = "" \/ infoHash = ""
             THEN Received("done", Respond(422, ""))
             ELSE Received("checker", NoResponse))
    /\ UNCHANGED <<clock, clockSteps, resolveInFlight, streams, lastListed, invocations,
                   lastStore, keysDrawn, notAppVars>>

\* GET requests for the keys that stream answers hand out
ResolveRequest == ResolveArrives({"GET"}, SelectionKeys)

\* what torboxResolver settles with: a link, no link, or an error with a code
\* (every invocation that yields a link yields a link of its own)
ResolverOutcomes(i) ==
    { [kind |-> "resolved", url |-> "https://cdn.example/" \o NumberToString(i)],
      [kind |-> "resolved", url |-> ""],
      [kind |-> "rejected", code |-> "TORBOX_NOT_READY"],
      [kind |-> "rejected", code |-> "TORBOX_DOWNLOAD_ERROR"],
      [kind |-> "rejected", code |-> "ACTIVE_LIMIT"] }

\* the arguments of torboxResolver, lines 341-356
ResolverArgs(request, isCached) ==
    LET selection == request.selection
        magnet == normalizeMagnet(selection.magnet)
    IN [apiKey |-> decodeConfig(request.token).torboxApiKey,
        magnet |-> magnet,
        infoHash |-> ToLowerCase(IF selection.infoHash # "" THEN selection.infoHash
                                 ELSE extractInfoHashFromMagnet(magnet)),
        fileName |-> IF selection.season # 0 /\ selection.episode # 0 THEN ""
                     ELSE selection.fileName,
        season |-> selection.season, episode |-> selection.episode,
        includeSubtitles |-> FALSE,
        maxWaitMs |-> IF isCached = "true" THEN 30000 ELSE 600000]

\* lines 345-358: the in-flight map after the lookup, given the number of
\* the invocation that is started when the key has no entry
startOrAttach(inFlight, resolveKey, started) ==
    IF inFlight[resolveKey] = 0 THEN [inFlight EXCEPT ![resolveKey] = started]
    ELSE inFlight

\* lines 330-363: the availability check answers (true, false), or it fails,
\* times out or does not know the hash (none); the request attaches to the
\* in-flight invocation of its key or starts one, and awaits it
CheckerSettles ==
    \E r \in 1..Len(requests), answer \in {"true", "false", "none"} :
        LET request == requests[r]
            resolveKey == KeyOf(request)
            isCached == IF answer = "none" THEN request.selection.cached ELSE answer
            promise == resolveInFlight[resolveKey]
            started == Len(invocations) + 1
        IN
        /\ request.pc = "checker"
        /\ resolveInFlight' = startOrAttach(resolveInFlight, resolveKey, started)
        /\ invocations' =
             IF promise = 0
             THEN Append(invocations, [key |-> resolveKey, state |-> "pending",
                                       startedAt |-> clock,
                                       args |-> ResolverArgs(request, isCached)])
             ELSE invocations
        /\ requests' = [requests EXCEPT ![r] =
             [@ EXCEPT !.pc = "resolver",
                       !.inv = IF promise = 0 THEN started ELSE promise,
                       !.started = (promise = 0)]]
        /\ UNCHANGED <<clock, clockSteps, resolveCache, streamSelectionCache,
                       torboxMyListCache, streams, lastListed, lastStore, staleSeen,
                       keysDrawn, notAppVars>>

\* a route that redirects to whatever the resolver returned
Answer_noUrlCheck(outcome) ==
    IF outcome.kind = "resolved" THEN Respond(302, outcome.url)
    ELSE IF outcome.code = "TORBOX_NOT_READY"
    THEN [Respond(409, "") EXCEPT !.retryAfter = "10"]
    ELSE Respond(502, "")

\* the catch of the resolve route answering every error alike
Answer_allBadGateway(outcome) ==
    IF outcome.kind = "resolved"
    THEN (IF outcome.url = "" THEN Respond(502, "") ELSE Respond(302, outcome.url))
    ELSE Respond(502, "")

\* lines 360-390 for one awaiting request: its answer
Answer(outcome) ==
    IF outcome.kind = "resolved"
    THEN (IF outcome.url = "" THEN Respond(502, "") ELSE Respond(302, outcome.url))
    ELSE IF outcome.code = "TORBOX_NOT_READY"
    THEN [Respond(409, "") EXCEPT !.retryAfter = "10"]
    ELSE Respond(502, "")

\* an await whose entry is deleted after the try block, not in a finally
afterAwait_deletesOnSuccess(inFlight, resolveKey, outcome) ==
    IF outcome.kind = "resolved" THEN [inFlight EXCEPT ![resolveKey] = 0] ELSE inFlight

\* lines 361-367: the in-flight map once the awaited promise has settled;
\* the finally block runs whatever the outcome
afterAwait(inFlight, resolveKey, outcome) == [inFlight EXCEPT ![resolveKey] = 0]

\* a route that stores what the resolver returned before it looks at the url
storesUrl_beforeUrlCheck(outcome) == outcome.kind = "resolved"

\* lines 369-377: resolveCache.set is reached when the await returned, not
\* threw, and the url passed the test of line 369
storesUrl(outcome) == outcome.kind = "resolved" /\ outcome.url # ""

\* lines 360-390: an invocation settles and every request awaiting it
\* resumes in the same turn: the in-flight entry of the key is deleted, a
\* link is stored in resolveCache, and the requests are answered
ResolverSettles ==
    \E i \in 1..Len(invocations) : \E outcome \in ResolverOutcomes(i) :
        LET resolveKey == invocations[i].key
            waiters == { r \in 1..Len(requests) :
                           requests[r].pc = "resolver" /\ requests[r].inv = i }
            entry == [url |-> outcome.url, expiresAt |-> clock + RESOLVE_CACHE_TTL_MS]
            stored == storesUrl(outcome)
        IN
        /\ invocations[i].state = "pending"
        /\ invocations' = [invocations EXCEPT ![i] =
                             [@ EXCEPT !.state = outcome.kind] @@ [outcome |-> outcome]]
        /\ resolveInFlight' =
             IF waiters # {} THEN afterAwait(resolveInFlight, resolveKey, outcome)
             ELSE resolveInFlight
        /\ resolveCache' =
             IF waiters # {} /\ stored THEN [resolveCache EXCEPT ![resolveKey] = entry]
             ELSE resolveCache
        /\ lastStore' =
             IF waiters # {} /\ stored
             THEN [lastStore EXCEPT ![resolveKey] = [url |-> outcome.url, at |-> clock]]
             ELSE lastStore
        /\ staleSeen' =
             IF waiters # {} /\ stored THEN [staleSeen EXCEPT ![resolveKey] = FALSE]
             ELSE staleSeen
        /\ requests' = [r \in 1..Len(requests) |->
             IF r \in waiters
             THEN [requests[r] EXCEPT !.pc = "done", !.response = Answer(outcome)]
             ELSE requests[r]]
        /\ UNCHANGED <<clock, clockSteps, streamSelectionCache, torboxMyListCache,
                       streams, lastListed, keysDrawn, notAppVars>>

\* time passes between two turns of the event loop; the availability check
\* is given 1500 ms (line 334), less than any advance of the clock, and
\* torboxResolver gives up at its deadline, maxWaitMs after it was called
Passes(advances) ==
    /\ clockSteps < MaxClockSteps
    /\ \A r \in 1..Len(requests) : requests[r].pc # "checker"
    /\ \A s \in 1..Len(streams) : streams[s].pc # "mylist"
    /\ \E d \in advances :
         /\ \A i \in 1..Len(invocations) :
                invocations[i].state = "pending" =>
                    clock + d <= invocations[i].startedAt + invocations[i].args.maxWaitMs
         /\ clock' = clock + d
    /\ clockSteps' = clockSteps + 1
    /\ UNCHANGED <<resolveCache, resolveInFlight, streamSelectionCache, torboxMyListCache,
                   streams, lastListed, requests, invocations, lastStore, staleSeen,
                   keysDrawn, notAppVars>>

Advance == Passes(ClockAdvances)

Init ==
    /\ InitApp /\ InitBencodeIdle /\ InitTorrentIdle /\ InitSelectIdle /\ InitResolveIdle
    /\ InitConfigIdle /\ InitClientIdle

Next ==
    \/ StreamRequest
    \/ MyListSettles
    \/ ResolveRequest
    \/ CheckerSettles
    \/ ResolverSettles
    \/ Advance

Spec == Init /\ [][Next]_vars

(***************************************************************************)
(* SpecStream: the stream route on its own, with stream requests that      *)
(* arrive at once or some seconds apart.                                   *)
(***************************************************************************)
LoneStreamRequest == StreamArrives(MaxLoneStreams)

Tick == Passes(ClockTicks)

NextStream ==
    \/ LoneStreamRequest
    \/ MyListSettles
    \/ Tick

SpecStream == Init /\ [][NextStream]_vars

(***************************************************************************)
(* SpecRoute: the resolve route as any client may call it, with requests   *)
(* of either method, for the keys of stream answers and for a path segment *)
(* that no stream answer gave.                                             *)
(***************************************************************************)
Methods == {"GET", "HEAD"}

\* a last path segment made of a key the server never stored, '_' and the
\* encoded selection of a row found for account T
InlineSegments == {"fakeSelectionKey_eyJ"}

AnyResolveRequest == ResolveArrives(Methods, SelectionKeys \cup InlineSegments)

NextRoute ==
    \/ StreamRequest
    \/ MyListSettles
    \/ AnyResolveRequest
    \/ CheckerSettles
    \/ ResolverSettles

SpecRoute == Init /\ [][NextRoute]_vars

(***************************************************************************)
(* Properties of the resolve route.                                        *)
(***************************************************************************)
Requests == 1..Len(requests)
Invocations == 1..Len(invocations)

\* the request was handed on to torboxResolver, or is about to be
ReachesResolver(q) == q.pc = "checker" \/ q.inv # 0

\* the selection the request read is present, unexpired and of its account
SelectionUsable(q) ==
    /\ q.selection # None
    /\ q.selection.expiresAt > q.at
    /\ q.selection.token = q.token

\* C1: requests for one key that overlap in time and are not served from
\* resolveCache start torboxResolver once: a key never has two invocations
\* in flight, requests that overlap await the same invocation, and each is
\* answered with the outcome of that invocation
OverlappingRequestsShareOneInvocation ==
    /\ \A i, j \in Invocations :
          /\ invocations[i].state = "pending"
          /\ invocations[j].state = "pending"
          /\ invocations[i].key = invocations[j].key
          => i = j
    /\ \A r \in Requests : \A q \in requests[r].overlap :
          requests[r].inv # 0 /\ requests[q].inv # 0 => requests[r].inv = requests[q].inv
    /\ \A r \in Requests :
          requests[r].pc = "done" /\ requests[r].inv # 0 =>
              requests[r].response = Answer(invocations[requests[r].inv].outcome)

\* a request served from resolveCache
ServedFromCache(q) ==
    /\ q.pc = "done"
    /\ q.inv = 0
    /\ q.response = Respond(302, q.stored.url)

RedirectedToOwnLink(q) ==
    LET outcome == invocations[q.inv].outcome IN
    outcome.kind = "resolved" =>
        q.response = IF outcome.url # "" THEN Respond(302, outcome.url)
                     ELSE Respond(502, "")

\* every invocation was started by one request
OneStarterEach ==
    /\ Len(invocations) = Cardinality({ r \in Requests : requests[r].started })
    /\ \A r, p \in Requests :
          requests[r].started /\ requests[p].started /\ requests[r].inv = requests[p].inv
          => r = p

QueueLimitAnswered429 ==
    \A r \in Requests :
        LET q == requests[r] IN
        /\ q.pc = "done" /\ q.inv # 0
        /\ invocations[q.inv].outcome = [kind |-> "rejected", code |-> "ACTIVE_LIMIT"]
        => q.response.status = 429

\* C24: of two requests for one selection, the second arriving after the
\* first was answered, each awaits a call of torboxResolver of its own and
\* is redirected to the link that call returned: a link resolved earlier is
\* not used again
EachResolveInvokesAnew ==
    \A a, b \in Requests :
        /\ a < b
        /\ KeyOf(requests[a]) = KeyOf(requests[b])
        /\ a \notin requests[b].overlap
        /\ SelectionUsable(requests[a]) /\ SelectionUsable(requests[b])
        /\ requests[a].response.status = 302
        /\ requests[b].pc = "done" /\ requests[b].response.status = 302
        => /\ requests[b].inv # 0
           /\ requests[b].inv # requests[a].inv
           /\ RedirectedToOwnLink(requests[b])

ReturnedLink(invocation) ==
    /\ invocation.state = "resolved"
    /\ invocation.outcome.url # ""

\* C35: every entry of resolveCache holds a url that is not empty and that
\* an invocation of torboxResolver for the key of the entry returned; the
\* turn in which an invocation is rejected or returns no url leaves
\* resolveCache as it was
CacheHoldsReturnedLinksOnly ==
    /\ [](\A k \in ResolveKeys :
            resolveCache[k] # None =>
                /\ resolveCache[k].url # ""
                /\ \E i \in Invocations :
                      /\ invocations[i].key = k
                      /\ ReturnedLink(invocations[i])
                      /\ invocations[i].outcome.url = resolveCache[k].url)
    /\ [][\A i \in Invocations :
            /\ invocations[i].state = "pending"
            /\ invocations'[i].state # "pending"
            /\ ~ReturnedLink(invocations'[i])
            => resolveCache' = resolveCache]_vars

\* Witness of C35: one invocation for a key returned no url, a later one for
\* the same key returned a link, and the entry of the key holds that link
LinkCachedAfterEmptyResultWitness ==
    \E i, j \in Invocations :
        /\ i < j
        /\ invocations[i].key = invocations[j].key
        /\ invocations[i].state = "resolved"
        /\ invocations[i].outcome.url = ""
        /\ ReturnedLink(invocations[j])
        /\ resolveCache[invocations[j].key] # None
        /\ resolveCache[invocations[j].key].url = invocations[j].outcome.url

\* the request that arrives in this step, if one does
Arriving == requests'[Len(requests')]

NonePending(resolveKey) ==
    \A i \in Invocations :
        invocations[i].key = resolveKey => invocations[i].state # "pending"

\* C18: an entry of resolveInFlight is an invocation of its key that has not
\* settled; in the turn in which an invocation settles, with a link or with
\* an error, the entry of its key is deleted; and a request that reaches
\* the in-flight lookup when no invocation of its key is pending starts a
\* new one and awaits it
SettledInvocationLeavesNoEntry ==
    /\ [](\A k \in ResolveKeys :
            resolveInFlight[k] # 0 =>
                /\ invocations[resolveInFlight[k]].key = k
                /\ invocations[resolveInFlight[k]].state = "pending")
    /\ [][\A i \in Invocations :
            invocations[i].state = "pending" /\ invocations'[i].state # "pending"
            => resolveInFlight'[invocations[i].key] = 0]_vars
    /\ [][\A r \in Requests :
            /\ requests[r].pc = "checker" /\ requests'[r].pc = "resolver"
            /\ NonePending(KeyOf(requests[r]))
            => /\ Len(invocations') = Len(invocations) + 1
               /\ requests'[r].inv = Len(invocations')
               /\ invocations'[Len(invocations')].key = KeyOf(requests[r])
               /\ invocations'[Len(invocations')].state = "pending"]_vars

\* an invocation was rejected, and a request for the same key that was not
\* answered from resolveCache started a second one, now in flight
NewInvocationAfterFailureWitness ==
    \E i, j \in Invocations :
        /\ i < j
        /\ invocations[i].key = invocations[j].key
        /\ invocations[i].state = "rejected"
        /\ invocations[j].state = "pending"
        /\ resolveInFlight[invocations[j].key] = j
        /\ \E r \in Requests :
              requests[r].inv = j /\ requests[r].started /\ requests[r].pc = "resolver"

(***************************************************************************)
(* Properties of the resolver together with the resolve route that awaits  *)
(* it (app.js line 363).                                                   *)
(***************************************************************************)
\* what the route awaits when the call of the resolver has ended
Settled(outcome) ==
    IF outcome.kind = "url" THEN [kind |-> "resolved", url |-> outcome.url]
    ELSE [kind |-> "rejected", code |-> outcome.code]

\* the call ended at the head of the loop: its last listing led to a sleep
EndedAtDeadline ==
    /\ rPc = "done"
    /\ rLastList.called
    /\ rRequested = NoRequest
    /\ ~FoundInTerminalFailure

\* the call ended on a job in a terminal failure state
EndedOnFailedJob ==
    /\ rPc = "done"
    /\ FoundInTerminalFailure
    /\ rRequested = NoRequest

\* the job the last listing held is still downloading or queued
FoundDownloading ==
    /\ rLastList.called
    /\ rLastList.found # 0
    /\ statusDownloading(rLastList.list[rLastList.found])

\* C28: while the job found by polling is still downloading or queued (not
\* ready, not failed), the call stays in polling: after the listing it
\* sleeps, to list again unless the deadline ends it, and it requests no
\* download link for that job
DownloadingJobKeepsPolling ==
    FoundDownloading =>
        /\ rRequested = NoRequest
        /\ rPc = "sleep" \/ EndedAtDeadline

\* a step that starts a listMyTorrents call
StartsListing ==
    rPc' = "list" /\ (rPc # "list" \/ rListCalls' # rListCalls)

\* C29: a pass of the polling loop that does not end the call sleeps 2000 ms
\* before the next listMyTorrents call: a listing that has answered leads to
\* the sleep, to the link request or to the end, and a listMyTorrents call
\* that is not the first of the call starts at the end of a sleep of 2000 ms
SleepsBetweenListings ==
    [][/\ rListCalls' = rListCalls + 1 => rPc' \in {"sleep", "requestdl", "done"}
       /\ (StartsListing /\ rListCalls' > 0) => (rPc = "sleep" /\ rNow' = rNow + 2000)
      ]_vars

\* a call has listed, slept and listed again
ListedAgainWitness ==
    /\ rListCalls >= 2
    /\ rSleepCalls >= 1
    /\ rPc = "sleep"

\* C30: with skipCreate set the call makes no createTorrentFromMagnet call
\* at all, and it starts with the listing: until the first listing has
\* answered the call is at its start, awaits listMyTorrents, or has ended on
\* a missing input
SkipCreateNeverCreates ==
    rArgs.skipCreate =>
        /\ rCreateResults = <<>>
        /\ ~rCreatedAttempted
        /\ rPc \notin {"create", "retry"}
        /\ rListCalls = 0 => (rPc \in {"start", "list"} \/ (rPc = "done" /\ InputMissing))

\* a call with skipCreate set has polled and ended with a link
SkipCreateWitness ==
    /\ rArgs.skipCreate
    /\ rListCalls >= 2
    /\ rPc = "done"
    /\ rOutcome.kind = "url"

\* the jobs of a listing whose id is the known job id
WithKnownId(list, knownId) ==
    { k \in 1..Len(list) : knownId # "" /\ pickTorrentId(list[k]) = knownId }

\* the jobs of a listing whose hash field, or the hash of whose magnet, is
\* the target
WithTargetHash(list, target) ==
    { k \in 1..Len(list) :
        \/ (list[k].hash # "" /\ ToLowerCase(list[k].hash) = target)
        \/ (extractInfoHash(list[k].magnet) # "" /\ extractInfoHash(list[k].magnet) = target) }

\* C31: findTorrentInList returns a job with the known job id when the
\* listing has one, otherwise a job whose hash field or magnet-derived hash
\* is the target infoHash, otherwise none; with a target that is not empty
\* it never returns a job that matches neither (checked on every listing
\* that answers, with the job id known when listMyTorrents was called)
FoundByIdElseByHash ==
    [][rListCalls' = rListCalls + 1 /\ rLastList'.called =>
         LET list == rLastList'.list
             found == rLastList'.found
         IN /\ IF WithKnownId(list, rTorrentId) # {}
               THEN found \in WithKnownId(list, rTorrentId)
               ELSE IF WithTargetHash(list, rTargetHash) # {}
               THEN found \in WithTargetHash(list, rTargetHash)
               ELSE found = 0
            /\ (rTargetHash # "" /\ found # 0) =>
                  found \in WithKnownId(list, rTorrentId) \cup WithTargetHash(list, rTargetHash)
      ]_vars

\* a job was found by its hash though a job id was known, in a listing that
\* also holds a job of another torrent
FoundByHashWitness ==
    /\ rLastList.called
    /\ rLastList.found # 0
    /\ Len(rLastList.list) = 2
    /\ rTorrentId # ""
    /\ pickTorrentId(rLastList.list[rLastList.found]) # rTorrentId
    /\ rLastList.found \in WithTargetHash(rLastList.list, rTargetHash)

\* a createTorrentFromMagnet call is awaited
CreatePending == rPc \in {"create", "retry"}

\* C33: within one call createTorrentFromMagnet is called only before the
\* first listMyTorrents call and at most twice, the attempt and its one
\* retry after a failure; no later pass of the polling loop calls it again
CreateOnlyBeforeListing ==
    /\ Len(rCreateResults) + (IF CreatePending THEN 1 ELSE 0) <= 2
    /\ CreatePending => rListCalls = 0 /\ rSleepCalls = 0
    /\ Len(rCreateResults) = 2 => ~rCreateResults[1].ok
    /\ rPc = "retry" => Len(rCreateResults) = 1 /\ ~rCreateResults[1].ok

\* a call made the attempt and the retry and then went through three
\* listings
CreateTwiceThenPolledWitness ==
    /\ Len(rCreateResults) = 2
    /\ rListCalls >= 3
    /\ rSleepCalls >= 2

\* the call was rejected with TORBOX_NOT_READY
FailedNotReady == rOutcome.kind = "error" /\ rOutcome.code = "TORBOX_NOT_READY"

\* C39: the deadline of a call that passed the tests of its arguments is
\* max(5000, maxWaitMs) milliseconds after its start, with 600000 in place of
\* a maxWaitMs that is 0, not given or not a number; and a call that is
\* rejected with TORBOX_NOT_READY has listed the jobs at least once, and its
\* deadline has passed
WindowIsAtLeastFiveSeconds ==
    /\ (rPc \notin {"idle", "start"} /\ ValidArgs) =>
          LET given == rArgs.maxWaitMs IN
          IF given.type = "int" /\ given.n # 0
          THEN /\ rDeadline >= 5000 /\ rDeadline >= given.n
               /\ rDeadline \in {5000, given.n}
          ELSE rDeadline = 600000
    /\ FailedNotReady => rListCalls >= 1 /\ rNow >= rDeadline

\* Witness of C39: a call whose maxWaitMs is not a number got a window of ten
\* minutes; createTorrentFromMagnet returned after the deadline, the jobs
\* were listed once all the same, and the call was rejected as not ready
LateCreateStillListsWitness ==
    /\ rArgs.maxWaitMs = NaN
    /\ rDeadline = 600000
    /\ Len(rCreateResults) >= 1
    /\ rListCalls = 1
    /\ FailedNotReady

\* C13: a call that ends because the deadline has passed rejects with
\* TORBOX_NOT_READY and one that ends on a failed job with
\* TORBOX_DOWNLOAD_ERROR, neither code has another origin, and the resolve
\* route answers the first 409 with retry-after and the second 502 without
NotReadyToldFromDownloadError ==
    /\ EndedAtDeadline =>
          /\ rNow >= rDeadline
          /\ rOutcome.kind = "error" /\ rOutcome.code = "TORBOX_NOT_READY"
          /\ Answer(Settled(rOutcome)).status = 409
          /\ Answer(Settled(rOutcome)).retryAfter # ""
    /\ EndedOnFailedJob =>
          /\ rOutcome.kind = "error" /\ rOutcome.code = "TORBOX_DOWNLOAD_ERROR"
          /\ Answer(Settled(rOutcome)).status = 502
          /\ Answer(Settled(rOutcome)).retryAfter = ""
    /\ rOutcome.kind = "error" =>
          /\ rOutcome.code = "TORBOX_NOT_READY" => EndedAtDeadline
          /\ rOutcome.code = "TORBOX_DOWNLOAD_ERROR" => EndedOnFailedJob

\* the deadline passed after more than one listing
NotReadyWitness ==
    /\ EndedAtDeadline
    /\ rListCalls >= 2
    /\ rOutcome.code = "TORBOX_NOT_READY"

(***************************************************************************)
(* Properties of the stream route.                                         *)
(***************************************************************************)
Streams == 1..Len(streams)

AccountOf(stream) == hashTorboxKey(decodeConfig(stream.token).torboxApiKey)

\* the last segment of the path of a URL
RECURSIVE LastSegment(_)
LastSegment(url) ==
    IF \A i \in 1..Len(url) : CharAt(url, i) # "/" THEN url
    ELSE LastSegment(SubSeq(url, 2, Len(url)))

\* the segment is a key, '_' and a payload
CarriesPayload(segment) ==
    \E i \in 2..(Len(segment) - 1) : CharAt(segment, i) = "_"

\* C25: every URL of a stream answer ends with the selection key, '_' and
\* an encoded payload, and a GET request of account T whose segment carries
\* the payload of a selection under a key that the selection cache does not
\* hold is resolved as for a known key: it is not answered 404, it awaits an
\* invocation of the resolver and redirects to the link that yields
InlineSelectionRecovered ==
    /\ \A s \in Streams : \A n \in 1..Len(streams[s].urls) :
          CarriesPayload(LastSegment(streams[s].urls[n]))
    /\ \A q \in Requests :
          (/\ requests[q].method = "GET"
           /\ requests[q].token = "T"
           /\ requests[q].selectionKey \in InlineSegments
           /\ requests[q].selectionKey \notin DOMAIN streamSelectionCache
           /\ requests[q].pc = "done")
          => /\ requests[q].response.status # 404
             /\ requests[q].inv # 0

\* C26: a HEAD request to the resolve URL of a selection that is present,
\* unexpired and of the request's account is answered 204, and it never
\* comes to the resolver
HeadAnswered204 ==
    \A q \in Requests :
        (/\ requests[q].method = "HEAD"
         /\ SelectionUsable(requests[q])
         /\ decodeConfig(requests[q].token).torboxApiKey # "")
        => /\ ~ReachesResolver(requests[q])
           /\ requests[q].pc = "done" => requests[q].response.status = 204

\* the request arrived less than 15 seconds after a job listing of its
\* account was stored
WithinListingTtl(stream) ==
    /\ stream.stored # None
    /\ stream.at < stream.stored.at + 15 * 1000

\* the requests of the account whose call of torboxMyListFetcher is pending
ListingsInFlight(account) ==
    { s \in Streams : streams[s].pc = "mylist" /\ AccountOf(streams[s]) = account }

\* a stream request within 15 seconds of a stored job listing of its account
\* makes no call of torboxMyListFetcher
ListingReusedWithinTtl ==
    \A s \in Streams : WithinListingTtl(streams[s]) => ~streams[s].fetched

\* C19: a stream request within 15 seconds of a stored job listing of its
\* account makes no call of torboxMyListFetcher, and stream requests of one
\* account that are handled at the same time share one such call: an
\* account never has two of them pending
ListingSharedPerAccount ==
    /\ ListingReusedWithinTtl
    /\ \A account \in MyListKeys : Cardinality(ListingsInFlight(account)) <= 1

\* a request 5 or 10 seconds after a listing was stored made no call of its
\* own, and one 15 seconds after it did
ListingReusedWitness ==
    \E s, p \in Streams :
        /\ WithinListingTtl(streams[s]) /\ streams[s].at > streams[s].stored.at
        /\ ~streams[s].fetched /\ streams[s].pc = "done"
        /\ streams[p].stored # None
        /\ streams[p].at = streams[p].stored.at + 15 * 1000
        /\ streams[p].fetched


(***************************************************************************)
(* Config tokens: src/lib/config.js                                        *)
(***************************************************************************)
\* the characters of the texts: those of the codes 32 to 95 and those of the
\* codes 97 to 126
AsciiFromSpace == " !\"#$%&'()*+,-./0123456789:;<=>?@ABCDEFGHIJKLMNOPQRSTUVWXYZ[\\]^_"
AsciiFromLowerA == "abcdefghijklmnopqrstuvwxyz{|}~"

CharCode(c) ==
    IF \E i \in 1..Len(AsciiFromSpace) : CharAt(AsciiFromSpace, i) = c
    THEN 31 + CHOOSE i \in 1..Len(AsciiFromSpace) : CharAt(AsciiFromSpace, i) = c
    ELSE 96 + CHOOSE i \in 1..Len(AsciiFromLowerA) : CharAt(AsciiFromLowerA, i) = c

CharOfCode(byte) ==
    IF byte < 96 THEN CharAt(AsciiFromSpace, byte - 31)
    ELSE CharAt(AsciiFromLowerA, byte - 96)

\* Buffer.from(text, 'utf8'): one byte for each of these characters
Utf8Encode(text) == [i \in 1..Len(text) |-> CharCode(CharAt(text, i))]

RECURSIVE Utf8Decode(_)
\* buffer.toString('utf8'), for buffers of the bytes of these characters
Utf8Decode(bytes) ==
    IF bytes = <<>> THEN ""
    ELSE CharOfCode(Head(bytes)) \o Utf8Decode(Tail(bytes))

Base64UrlAlphabet == "ABCDEFGHIJKLMNOPQRSTUVWXYZabcdefghijklmnopqrstuvwxyz0123456789-_"

Base64UrlDigit(n) == CharAt(Base64UrlAlphabet, n + 1)

Base64UrlValue(c) ==
    (CHOOSE i \in 1..Len(Base64UrlAlphabet) : CharAt(Base64UrlAlphabet, i) = c) - 1

RECURSIVE ToBase64Url(_)
\* buffer.toString('base64url'): six bits a digit, without padding
ToBase64Url(bytes) ==
    IF bytes = <<>> THEN ""
    ELSE IF Len(bytes) = 1
    THEN Base64UrlDigit(bytes[1] \div 4) \o Base64UrlDigit((bytes[1] % 4) * 16)
    ELSE IF Len(bytes) = 2
    THEN Base64UrlDigit(bytes[1] \div 4)
         \o Base64UrlDigit((bytes[1] % 4) * 16 + bytes[2] \div 16)
         \o Base64UrlDigit((bytes[2] % 16) * 4)
    ELSE Base64UrlDigit(bytes[1] \div 4)
         \o Base64UrlDigit((bytes[1] % 4) * 16 + bytes[2] \div 16)
         \o Base64UrlDigit((bytes[2] % 16) * 4 + bytes[3] \div 64)
         \o Base64UrlDigit(bytes[3] % 64)
         \o ToBase64Url(SubSeq(bytes, 4, Len(bytes)))

RECURSIVE FromBase64Url(_)
\* Buffer.from(text, 'base64url'), for texts of base64url digits: eight bits
\* a byte, a rest of less than eight bits is dropped
FromBase64Url(text) ==
    LET d(i) == Base64UrlValue(CharAt(text, i)) IN
    IF Len(text) < 2 THEN <<>>
    ELSE IF Len(text) = 2 THEN << d(1) * 4 + d(2) \div 16 >>
    ELSE IF Len(text) = 3
    THEN << d(1) * 4 + d(2) \div 16, (d(2) % 16) * 16 + d(3) \div 4 >>
    ELSE << d(1) * 4 + d(2) \div 16, (d(2) % 16) * 16 + d(3) \div 4, (d(3) % 4) * 64 + d(4) >>
         \o FromBase64Url(SubSeq(text, 5, Len(text)))

\* JSON values: a string, a number, or an object as the set of its members
JsonString(text) == [type |-> "string", text |-> text]
JsonNumber(n) == [type |-> "number", number |-> n]
JsonObject(members) == [type |-> "object", members |-> members]

RECURSIVE JsonEscape(_)
\* the quotation mark and the backslash get a backslash in front
JsonEscape(text) ==
    IF text = "" THEN ""
    ELSE (IF CharAt(text, 1) \in {"\"", "\\"} THEN "\\" \o CharAt(text, 1)
          ELSE CharAt(text, 1))
         \o JsonEscape(SubSeq(text, 2, Len(text)))

\* JSON.stringify of a string of these characters
JsonQuote(text) == "\"" \o JsonEscape(text) \o "\""

\* line 8: JSON.stringify({ v, u, p, t }) with strings u, p and t
JsonStringify(v, u, p, t) ==
    "{\"v\":" \o NumberToString(v) \o ",\"u\":" \o JsonQuote(u)
    \o ",\"p\":" \o JsonQuote(p) \o ",\"t\":" \o JsonQuote(t) \o "}"

RECURSIVE JsonStringEnd(_, _, _)
\* JSON.parse inside a string, from position i on: up to the closing
\* quotation mark, with the escapes that keep to these characters
JsonStringEnd(text, i, acc) ==
    IF i > Len(text) THEN Fail("Unterminated string in JSON")
    ELSE IF CharAt(text, i) = "\"" THEN Ok(JsonString(acc), i + 1)
    ELSE IF CharAt(text, i) = "\\"
    THEN (IF i < Len(text) /\ CharAt(text, i + 1) \in {"\"", "\\", "/"}
          THEN JsonStringEnd(text, i + 2, acc \o CharAt(text, i + 1))
          ELSE Fail("Bad escaped character in JSON"))
    ELSE JsonStringEnd(text, i + 1, acc \o CharAt(text, i))

\* JSON.parse of a string or of a number without sign, fraction and exponent
JsonScalar(text, i) ==
    IF i > Len(text) THEN Fail("Unexpected end of JSON input")
    ELSE IF CharAt(text, i) = "\"" THEN JsonStringEnd(text, i + 1, "")
    ELSE IF IsDigit(CharAt(text, i))
    THEN LET ends == { k \in i..Len(text) : ~IsDigit(CharAt(text, k)) }
             end == IF ends = {} THEN Len(text) + 1
                    ELSE CHOOSE k \in ends : \A j \in ends : k <= j
         IN IF CharAt(text, i) = "0" /\ end > i + 1 THEN Fail("Unexpected number in JSON")
            ELSE Ok(JsonNumber(DecimalValue(SubSeq(text, i, end - 1))), end)
    ELSE Fail("Unexpected token in JSON")

\* the object with the member set, a later member of a name replacing an
\* earlier one
WithMember(members, name, value) ==
    { m \in members : m[1] # name } \cup { <<name, value>> }

RECURSIVE JsonMembersEnd(_, _, _)
\* JSON.parse inside an object, at the name of a member
JsonMembersEnd(text, i, members) ==
    IF i > Len(text) \/ CharAt(text, i) # "\"" THEN Fail("Unexpected token in JSON")
    ELSE LET name == JsonStringEnd(text, i + 1, "") IN
         IF ~name.ok THEN name
         ELSE IF name.next > Len(text) \/ CharAt(text, name.next) # ":"
         THEN Fail("Unexpected token in JSON")
         ELSE LET value == JsonScalar(text, name.next + 1) IN
              IF ~value.ok THEN value
              ELSE IF value.next > Len(text) THEN Fail("Unexpected end of JSON input")
              ELSE IF CharAt(text, value.next) = ","
              THEN JsonMembersEnd(text, value.next + 1,
                                  WithMember(members, name.value.text, value.value))
              ELSE IF CharAt(text, value.next) = "}"
              THEN Ok(JsonObject(WithMember(members, name.value.text, value.value)),
                      value.next + 1)
              ELSE Fail("Unexpected token in JSON")

\* JSON.parse, for texts without white space that hold strings, numbers and
\* objects of them
JsonParse(text) ==
    LET parsed == IF Len(text) >= 2 /\ SubSeq(text, 1, 2) = "{}" THEN Ok(JsonObject({}), 3)
                  ELSE IF Len(text) >= 1 /\ CharAt(text, 1) = "{"
                  THEN JsonMembersEnd(text, 2, {})
                  ELSE JsonScalar(text, 1)
    IN IF parsed.ok /\ parsed.next # Len(text) + 1 THEN Fail("Unexpected token in JSON")
       ELSE parsed

\* value.name: undefined for a member the object lacks, and on a string or a
\* number
Member(value, name) ==
    IF value.type = "object" /\ \E m \in value.members : m[1] = name
    THEN (CHOOSE m \in value.members : m[1] = name)[2]
    ELSE Undefined

\* !value
Falsy(value) ==
    \/ value = Undefined
    \/ value.type = "string" /\ value.text = ""
    \/ value.type = "number" /\ value.number = 0

VERSION == 2

\* a config whose token carries the previous version number
encodeConfig_previousVersion(config) ==
    IF config.username = "" \/ config.password = "" \/ config.torboxApiKey = ""
    THEN Fail("username, password and torboxApiKey are required")
    ELSE Ok(ToBase64Url(Utf8Encode(JsonStringify(VERSION - 1, config.username,
                                                 config.password, config.torboxApiKey))), 0)

\* lines 3-10, for a config of three strings
encodeConfig(config) ==
    IF config.username = "" \/ config.password = "" \/ config.torboxApiKey = ""
    THEN Fail("username, password and torboxApiKey are required")
    ELSE Ok(ToBase64Url(Utf8Encode(JsonStringify(VERSION, config.username,
                                                 config.password, config.torboxApiKey))), 0)

\* lines 12-41: decodeConfig as config.js computes it from the digits of the
\* token (the routes above take its result for each account as given)
decodeConfigToken(token) ==
    IF token = "" THEN Fail("missing config token")
    ELSE LET parsed == JsonParse(Utf8Decode(FromBase64Url(token))) IN
         IF ~parsed.ok THEN Fail("invalid config token json")
         ELSE IF \/ Falsy(parsed.value)
                 \/ Falsy(Member(parsed.value, "u"))
                 \/ Falsy(Member(parsed.value, "p"))
         THEN Fail("invalid config token payload")
         ELSE IF Member(parsed.value, "v") = JsonNumber(1)
         THEN Ok([username |-> Member(parsed.value, "u"),
                  password |-> Member(parsed.value, "p"),
                  torboxApiKey |-> JsonString("")], 0)
         ELSE IF \/ Member(parsed.value, "v") # JsonNumber(VERSION)
                 \/ Falsy(Member(parsed.value, "t"))
         THEN Fail("invalid config token payload")
         ELSE Ok([username |-> Member(parsed.value, "u"),
                  password |-> Member(parsed.value, "p"),
                  torboxApiKey |-> Member(parsed.value, "t")], 0)

\* the configs handed to encodeConfig
Usernames == {"alice", "a\"b", "u:1,", ""}
Passwords == {"secret", "p\\w", "}{", ""}
ApiKeys == {"tb_key", "\"\\", "k 1", ""}
Configs == [username : Usernames, password : Passwords, torboxApiKey : ApiKeys]

\* tokens from elsewhere: of the previous version, of a later one, without
\* a key, without a password, cut short, of a number, of a string, and some
\* that are no tokens
GivenTokens ==
    { ToBase64Url(Utf8Encode(text)) :
        text \in { "{\"v\":1,\"u\":\"alice\",\"p\":\"secret\"}",
                   "{\"v\":3,\"u\":\"alice\",\"p\":\"secret\",\"t\":\"tb_key\"}",
                   "{\"v\":2,\"u\":\"alice\",\"p\":\"secret\"}",
                   "{\"v\":2,\"u\":\"alice\",\"p\":\"\",\"t\":\"tb_key\"}",
                   "{\"v\":2,\"u\":\"alice\"",
                   "{}", "0", "\"alice\"" } }
    \cup {"", "x"}

InitConfig ==
    /\ cfgConfig \in Configs \cup {None}
    /\ cfgToken = "" /\ cfgDecoded = NoResult /\ cfgPc = "start"
    /\ InitBencodeIdle /\ InitTorrentIdle /\ InitSelectIdle /\ InitResolveIdle /\ InitApp
    /\ InitClientIdle

\* encodeConfig is called with the config; a config it rejects yields no
\* token
EncodeConfig ==
    /\ cfgPc = "start" /\ cfgConfig # None
    /\ \E token \in { encodeConfig(cfgConfig) } :
        /\ cfgToken' = IF token.ok THEN token.value ELSE ""
        /\ cfgPc' = IF token.ok THEN "token" ELSE "rejected"
    /\ UNCHANGED <<cfgConfig, cfgDecoded, notConfigVars>>

\* a token arrives that encodeConfig did not yield here
TokenGiven ==
    /\ cfgPc = "start" /\ cfgConfig = None
    /\ cfgToken' \in GivenTokens
    /\ cfgPc' = "token"
    /\ UNCHANGED <<cfgConfig, cfgDecoded, notConfigVars>>

\* decodeConfig is called with the token
DecodeConfig ==
    /\ cfgPc = "token"
    /\ cfgDecoded' = decodeConfigToken(cfgToken)
    /\ cfgPc' = "decoded"
    /\ UNCHANGED <<cfgConfig, cfgToken, notConfigVars>>

NextConfig ==
    \/ EncodeConfig
    \/ TokenGiven
    \/ DecodeConfig

SpecConfig == InitConfig /\ [][NextConfig]_vars

(***************************************************************************)
(* Properties of the config tokens                                         *)
(***************************************************************************)
\* C27: decodeConfig of the token that encodeConfig yields for a config
\* returns exactly the username, the password and the TorBox key of that
\* config, for every config encodeConfig accepts
ConfigRoundTrips ==
    (cfgPc = "decoded" /\ cfgConfig # None)
    => /\ cfgDecoded.ok
       /\ cfgDecoded.value = [username |-> JsonString(cfgConfig.username),
                              password |-> JsonString(cfgConfig.password),
                              torboxApiKey |-> JsonString(cfgConfig.torboxApiKey)]

\* a config with a quotation mark and a backslash in it has gone through
\* encodeConfig and decodeConfig
ConfigRoundTripWitness ==
    /\ cfgPc = "decoded"
    /\ cfgConfig # None
    /\ cfgConfig.username = "a\"b" /\ cfgConfig.password = "p\\w"
    /\ cfgConfig.torboxApiKey = "\"\\"
    /\ cfgDecoded.ok

(***************************************************************************)
(* mapLimit: src/lib/ncore-client.js                                       *)
(* The workers are async functions on one thread: a worker runs until it   *)
(* awaits the iteratee call it has made, and resumes when that call has    *)
(* settled.  The iteratee of the only caller, enrichRow, never rejects.    *)
(***************************************************************************)
MaxItems == 3

Rows == {"r", "s"}
ItemLists == UNION { [1..n -> Rows] : n \in 0..MaxItems }
Limits == {-1, 0, 1, 2, 5}

\* what the iteratee call for an item at an index settles with
Enriched(item, i) == [row |-> item, index |-> i]
\* an element of new Array(n) that was never assigned
Hole == [hole |-> TRUE]

\* Math.max(1, Number(limit) || 1)
sizeOf(limit) == Max(1, IF limit = 0 THEN 1 ELSE limit)

\* a worker for every item
workerCount_perItem(size, length) == length

\* Math.min(size, all.length)
workerCount(size, length) == Min(size, length)

\* the loop head of worker w: it takes the index under the cursor, calls the
\* iteratee for it and awaits the call, or it ends when no index is left
takeNext(st, w, length) ==
    IF st.cursor < length
    THEN [cursor |-> st.cursor + 1,
          workers |-> [st.workers EXCEPT ![w] = st.cursor],
          calls |-> [st.calls EXCEPT ![st.cursor + 1] = @ + 1]]
    ELSE [st EXCEPT !.workers[w] = -1]

RECURSIVE startWorkers(_, _, _, _)
\* for (let i = 0; i < workerCount; i += 1) workers.push(worker())
startWorkers(st, w, count, length) ==
    IF w > count THEN st
    ELSE startWorkers(takeNext([st EXCEPT !.workers = Append(@, -1)], w, length),
                      w + 1, count, length)

InitMapLimit ==
    /\ mlItems \in ItemLists /\ mlLimit \in Limits
    /\ mlPc = "start" /\ mlCursor = 0
    /\ mlResult = <<>> /\ mlWorkers = <<>> /\ mlCalls = <<>> /\ mlOrder = <<>>
    /\ InitBencodeIdle /\ InitTorrentIdle /\ InitSelectIdle /\ InitResolveIdle
    /\ InitApp /\ InitConfigIdle /\ InitRetryIdle /\ InitLoginIdle

\* mapLimit(items, limit, iteratee) up to await Promise.all(workers)
MapLimitCalled ==
    /\ mlPc = "start"
    /\ \E st \in { startWorkers([cursor |-> 0, workers |-> <<>>,
                                 calls |-> [i \in 1..Len(mlItems) |-> 0]],
                                1, workerCount(sizeOf(mlLimit), Len(mlItems)),
                                Len(mlItems)) } :
          /\ mlCursor' = st.cursor
          /\ mlWorkers' = st.workers
          /\ mlCalls' = st.calls
    /\ mlResult' = [i \in 1..Len(mlItems) |-> Hole]
    /\ mlPc' = "running"
    /\ UNCHANGED <<mlItems, mlLimit, mlOrder, retryVars, loginVars,
                   notClientVars>>

\* the iteratee call a worker awaits settles: the worker stores the value
\* and is back at its loop head
IterateeSettles ==
    /\ mlPc = "running"
    /\ \E w \in 1..Len(mlWorkers) :
          /\ mlWorkers[w] >= 0
          /\ \E st \in { takeNext([cursor |-> mlCursor, workers |-> mlWorkers,
                                   calls |-> mlCalls], w, Len(mlItems)) } :
                /\ mlCursor' = st.cursor
                /\ mlWorkers' = st.workers
                /\ mlCalls' = st.calls
          /\ mlResult' = [mlResult EXCEPT ![mlWorkers[w] + 1] =
                              Enriched(mlItems[mlWorkers[w] + 1], mlWorkers[w])]
          /\ mlOrder' = Append(mlOrder, mlWorkers[w])
    /\ UNCHANGED <<mlItems, mlLimit, mlPc, retryVars, loginVars,
                   notClientVars>>

\* every worker has ended: Promise.all settles and mapLimit returns result
MapLimitReturns ==
    /\ mlPc = "running"
    /\ \A w \in 1..Len(mlWorkers) : mlWorkers[w] = -1
    /\ mlPc' = "returned"
    /\ UNCHANGED <<mlItems, mlLimit, mlCursor, mlResult, mlWorkers, mlCalls, mlOrder,
                   retryVars, loginVars,
                   notClientVars>>

NextMapLimit ==
    \/ MapLimitCalled
    \/ IterateeSettles
    \/ MapLimitReturns

SpecMapLimit == InitMapLimit /\ [][NextMapLimit]_vars

\* the iteratee calls that have not settled
InFlight == { w \in 1..Len(mlWorkers) : mlWorkers[w] >= 0 }

\* C36: mapLimit calls the iteratee exactly once for every item, never has
\* more than max(1, limit) of the calls in flight, and returns the values
\* of the calls in the order of the items, in whatever order the calls
\* settled
MapLimitBoundedOrderedOnce ==
    /\ Cardinality(InFlight) <= (IF mlLimit > 1 THEN mlLimit ELSE 1)
    /\ \A i \in 1..Len(mlCalls) : mlCalls[i] <= 1
    /\ mlPc = "returned" =>
          /\ Len(mlResult) = Len(mlItems)
          /\ \A i \in 1..Len(mlItems) :
                /\ mlCalls[i] = 1
                /\ mlResult[i] = Enriched(mlItems[i], i - 1)

\* Witness of C36: three items were mapped two at a time, the call for the
\* second item settled before the call for the first, and mapLimit returned
OutOfOrderCompletionWitness ==
    /\ mlPc = "returned"
    /\ Len(mlItems) = 3 /\ mlLimit = 2
    /\ mlOrder = <<1, 2, 0>>

(***************************************************************************)
(* fetchWithRetry: src/lib/ncore-client.js                                 *)
(***************************************************************************)
NCORE_RETRY_ATTEMPTS == 4
NCORE_RETRY_BASE_MS == 650
NCORE_RETRY_MAX_MS == 5000

\* what a fetch settles with: a response with a status, or an error with a
\* message
Statuses == {200, 404, 429, 500, 503}
ErrorMessages == {"socket hang up", "fetch failed", "Request Timeout", "Invalid URL"}
FetchOutcomes ==
    { [ok |-> TRUE, status |-> st] : st \in Statuses }
    \cup { [ok |-> FALSE, message |-> msg] : msg \in ErrorMessages }

\* a test that takes every status from 400 on
isRetriableStatus_fromFourHundred(status) == status >= 400

isRetriableStatus(status) == status = 429 \/ status >= 500

isRetriableNetworkError(message) ==
    LET lowered == ToLowerCase(message) IN
    \E part \in {"timeout", "aborted", "socket", "econnreset", "econnrefused",
                 "enotfound", "eai_again", "fetch failed"} : Includes(lowered, part)

\* retryDelayMs(attempt) for the values Math.random() can take: the jitter
\* is a whole number from 0 up to, not including, max(80, floor(exp / 4))
retryDelayMs(attempt) ==
    LET exp == Min(NCORE_RETRY_MAX_MS,
                   NCORE_RETRY_BASE_MS * (2 ^ Max(0, attempt - 1)))
    IN { exp + jitter : jitter \in {0, Max(80, exp \div 4) - 1} }

Fetched(outcome) == [kind |-> "fetch", outcome |-> outcome]
Slept(ms) == [kind |-> "sleep", ms |-> ms]

InitRetry ==
    /\ fwPc = "start" /\ fwAttempt = 0 /\ fwLastError = "" /\ fwOutcome = Pending
    /\ fwLog = <<>>
    /\ InitBencodeIdle /\ InitTorrentIdle /\ InitSelectIdle /\ InitResolveIdle
    /\ InitApp /\ InitConfigIdle /\ InitMapIdle /\ InitLoginIdle

\* the loop head of fetchWithRetry, lines 50 and 66-67: the next fetch is
\* made, or the call throws after the loop
loopHead(attempt, lastError) ==
    IF attempt <= NCORE_RETRY_ATTEMPTS
    THEN [pc |-> "fetch", outcome |-> Pending]
    ELSE [pc |-> "done",
          outcome |-> [kind |-> "error",
                       message |-> IF lastError # "" THEN lastError
                                   ELSE "nCore request failed after retries"]]

\* fetchWithRetry(url, init, label) up to the first await
RetryCalled ==
    /\ fwPc = "start"
    /\ fwAttempt' = 1
    /\ fwPc' = loopHead(1, "").pc
    /\ fwOutcome' = loopHead(1, "").outcome
    /\ UNCHANGED <<fwLastError, fwLog, mapVars, loginVars,
                   notClientVars>>

\* lines 52-63: the awaited fetch settles
FetchSettles ==
    /\ fwPc = "fetch"
    /\ \E outcome \in FetchOutcomes :
          /\ fwLog' = Append(fwLog, Fetched(outcome))
          /\ IF outcome.ok
             THEN /\ UNCHANGED fwLastError
                  /\ IF isRetriableStatus(outcome.status) /\ fwAttempt < NCORE_RETRY_ATTEMPTS
                     THEN fwPc' = "sleep" /\ UNCHANGED fwOutcome
                     ELSE /\ fwPc' = "done"
                          /\ fwOutcome' = [kind |-> "response", status |-> outcome.status]
             ELSE /\ fwLastError' = outcome.message
                  /\ IF ~isRetriableNetworkError(outcome.message)
                        \/ fwAttempt >= NCORE_RETRY_ATTEMPTS
                     THEN /\ fwPc' = "done"
                          /\ fwOutcome' = [kind |-> "error", message |-> outcome.message]
                     ELSE fwPc' = "sleep" /\ UNCHANGED fwOutcome
    /\ UNCHANGED <<fwAttempt, mapVars, loginVars,
                   notClientVars>>

\* the awaited sleep(retryDelayMs(attempt)) ends: attempt += 1 and the loop
\* head is evaluated
RetrySleepEnds ==
    /\ fwPc = "sleep"
    /\ \E ms \in retryDelayMs(fwAttempt) : fwLog' = Append(fwLog, Slept(ms))
    /\ fwAttempt' = fwAttempt + 1
    /\ fwPc' = loopHead(fwAttempt + 1, fwLastError).pc
    /\ fwOutcome' = loopHead(fwAttempt + 1, fwLastError).outcome
    /\ UNCHANGED <<fwLastError, mapVars, loginVars,
                   notClientVars>>

NextRetry ==
    \/ RetryCalled
    \/ FetchSettles
    \/ RetrySleepEnds

SpecRetry == InitRetry /\ [][NextRetry]_vars

\* the positions of the fetches in the log
FetchesMade == { k \in 1..Len(fwLog) : fwLog[k].kind = "fetch" }

\* the statuses and the errors the call may fetch again after
RetriedStatus(outcome) == outcome.ok /\ outcome.status \in {429, 500, 503}
RetriedError(outcome) ==
    ~outcome.ok /\ outcome.message \in {"socket hang up", "fetch failed", "Request Timeout"}

\* C37: fetchWithRetry makes at most NCORE_RETRY_ATTEMPTS fetches, with one
\* sleep between two fetches in a row; a fetch is followed by another only
\* when it settled with status 429 or 5xx or with a network error that can
\* be retried; any other error is thrown at once; and a response with such
\* a status to the last fetch is returned
RetriesOnlyWhatCanBeRetried ==
    /\ Cardinality(FetchesMade) <= NCORE_RETRY_ATTEMPTS
    /\ \A k \in 1..Len(fwLog) :
          /\ fwLog[k].kind = (IF k % 2 = 1 THEN "fetch" ELSE "sleep")
          /\ (fwLog[k].kind = "fetch" /\ (k < Len(fwLog) \/ fwPc = "sleep"))
             => RetriedStatus(fwLog[k].outcome) \/ RetriedError(fwLog[k].outcome)
          /\ (fwLog[k].kind = "fetch" /\ ~fwLog[k].outcome.ok
              /\ ~RetriedError(fwLog[k].outcome))
             => /\ k = Len(fwLog) /\ fwPc = "done"
                /\ fwOutcome = [kind |-> "error", message |-> fwLog[k].outcome.message]
          /\ (fwLog[k].kind = "fetch" /\ fwLog[k].outcome.ok
              /\ (~RetriedStatus(fwLog[k].outcome)
                  \/ k = 2 * NCORE_RETRY_ATTEMPTS - 1))
             => /\ k = Len(fwLog) /\ fwPc = "done"
                /\ fwOutcome = [kind |-> "response", status |-> fwLog[k].outcome.status]
    /\ fwPc = "done" => Len(fwLog) % 2 = 1

\* Witness of C37: the fourth fetch was answered 503 like the ones before
\* it, and that response was returned
LastAttemptReturnsRetriableWitness ==
    /\ fwPc = "done"
    /\ Cardinality(FetchesMade) = NCORE_RETRY_ATTEMPTS
    /\ \A k \in FetchesMade : fwLog[k].outcome = [ok |-> TRUE, status |-> 503]
    /\ fwOutcome = [kind |-> "response", status |-> 503]

(***************************************************************************)
(* loginAndSearch / loginAndFetchTorrentFile: src/lib/ncore-client.js      *)
(* The operation is fetchAllSearchRows in the first and                    *)
(* fetchTorrentFileBuffer in the second.                                   *)
(***************************************************************************)
LOGIN_COOKIE_TTL_MS == 300000

LoginFunctions == {"loginAndSearch", "loginAndFetchTorrentFile"}

\* the messages of the errors the operation of a function throws
OperationErrors(fn) ==
    IF fn = "loginAndSearch"
    THEN {"nCore search failed with status 403",
          "nCore search failed with status 500",
          "nCore search failed: login/session is invalid or blocked",
          "nCore search failed: unrecognized response format",
          "fetch failed"}
    ELSE {"torrent download failed with status 401",
          "torrent download failed with status 403",
          "torrent download failed with status 404",
          "fetch failed"}

\* the messages of the errors loginAndGetCookie throws
LoginErrors ==
    {"nCore login failed with status 403",
     "nCore login failed: invalid credentials or blocked login",
     "fetch failed"}

\* what loginCookieCache holds when the call is made: nothing, a cookie that
\* has not expired, or one that has
CachedCookies ==
    {None, [cookie |-> "PHPSESSID=old", expiresAt |-> 200000],
           [cookie |-> "PHPSESSID=old", expiresAt |-> 0]}

\* the cookie of the n-th login of the call
CookieOf(n) == "PHPSESSID=" \o NumberToString(n)

\* a test that takes every error for a session failure
isSessionFailure_anyError(message) == TRUE

isSessionFailure(message) ==
    LET lowered == ToLowerCase(message) IN
    \E part \in {"login", "session", "blocked", "status 401", "status 403"} :
        Includes(lowered, part)

\* lines 110-115: the cookie loginAndGetCookie returns without a login, ""
\* when it has to log in
cookieFromCache(cached, forceRefresh, now) ==
    IF ~forceRefresh /\ cached # None /\ cached.expiresAt > now /\ cached.cookie # ""
    THEN cached.cookie
    ELSE ""

LoggedIn(forced, ok, text) ==
    [kind |-> "login", forced |-> forced, ok |-> ok, text |-> text]
Tried(cookie, ok, text) ==
    [kind |-> "operation", cookie |-> cookie, ok |-> ok, text |-> text]
Rejected(message) == [kind |-> "error", message |-> message]
Fulfilled == [kind |-> "value"]

LoginsMade == { k \in 1..Len(lgLog) : lgLog[k].kind = "login" }

InitLogin ==
    /\ lgFn \in LoginFunctions /\ lgCache \in CachedCookies
    /\ lgPc = "start" /\ lgNow = 1000 /\ lgCookie = "" /\ lgOutcome = Pending
    /\ lgLog = <<>>
    /\ InitBencodeIdle /\ InitTorrentIdle /\ InitSelectIdle /\ InitResolveIdle
    /\ InitApp /\ InitConfigIdle /\ InitMapIdle /\ InitRetryIdle

\* the function is called: loginAndGetCookie returns the cached cookie and
\* the operation is started, or it logs in
LoginCalled ==
    /\ lgPc = "start"
    /\ \E cookie \in { cookieFromCache(lgCache, FALSE, lgNow) } :
          IF cookie # ""
          THEN lgCookie' = cookie /\ lgPc' = "operation"
          ELSE lgPc' = "login" /\ UNCHANGED lgCookie
    /\ UNCHANGED <<lgFn, lgNow, lgCache, lgOutcome, lgLog, mapVars, retryVars,
                   notClientVars>>

\* lines 125-148 of a login, forced or not: the login request settles; a
\* cookie is stored in loginCookieCache and returned, or the login throws
LoginSettles ==
    /\ lgPc \in {"login", "relogin"}
    /\ lgNow' = lgNow + 100
    /\ \/ /\ lgCookie' = CookieOf(Cardinality(LoginsMade) + 1)
          /\ lgCache' = [cookie |-> lgCookie', expiresAt |-> lgNow' + LOGIN_COOKIE_TTL_MS]
          /\ lgLog' = Append(lgLog, LoggedIn(lgPc = "relogin", TRUE, lgCookie'))
          /\ lgPc' = IF lgPc = "login" THEN "operation" ELSE "retry"
          /\ UNCHANGED lgOutcome
       \/ \E message \in LoginErrors :
             /\ lgLog' = Append(lgLog, LoggedIn(lgPc = "relogin", FALSE, message))
             /\ lgPc' = "done"
             /\ lgOutcome' = Rejected(message)
             /\ UNCHANGED <<lgCookie, lgCache>>
    /\ UNCHANGED <<lgFn, mapVars, retryVars, notClientVars>>

\* the operation settles, lines 76-82 and 153-159: its value is taken, a
\* session failure leads to a login with forceRefresh, which does not read
\* loginCookieCache, any other error is thrown
OperationSettles ==
    /\ lgPc = "operation"
    /\ lgNow' = lgNow + 100
    /\ \/ /\ lgLog' = Append(lgLog, Tried(lgCookie, TRUE, ""))
          /\ lgPc' = "done"
          /\ lgOutcome' = Fulfilled
       \/ \E message \in OperationErrors(lgFn) :
             /\ lgLog' = Append(lgLog, Tried(lgCookie, FALSE, message))
             /\ IF isSessionFailure(message)
                THEN /\ cookieFromCache(lgCache, TRUE, lgNow') = ""
                     /\ lgPc' = "relogin"
                     /\ UNCHANGED lgOutcome
                ELSE lgPc' = "done" /\ lgOutcome' = Rejected(message)
    /\ UNCHANGED <<lgFn, lgCache, lgCookie, mapVars, retryVars, notClientVars>>

\* the second try of the operation settles, lines 81 and 158: whatever it
\* settles with is what the function settles with
RetrySettles ==
    /\ lgPc = "retry"
    /\ lgNow' = lgNow + 100
    /\ \/ /\ lgLog' = Append(lgLog, Tried(lgCookie, TRUE, ""))
          /\ lgOutcome' = Fulfilled
       \/ \E message \in OperationErrors(lgFn) :
             /\ lgLog' = Append(lgLog, Tried(lgCookie, FALSE, message))
             /\ lgOutcome' = Rejected(message)
    /\ lgPc' = "done"
    /\ UNCHANGED <<lgFn, lgCache, lgCookie, mapVars, retryVars, notClientVars>>

NextLogin ==
    \/ LoginCalled
    \/ LoginSettles
    \/ OperationSettles
    \/ RetrySettles

SpecLogin == InitLogin /\ [][NextLogin]_vars

\* ---- C38 ---------------------------------------------------------------
SessionFailures ==
    {"nCore search failed with status 403",
     "nCore search failed: login/session is invalid or blocked",
     "torrent download failed with status 401",
     "torrent download failed with status 403"}

OperationsTried == { k \in 1..Len(lgLog) : lgLog[k].kind = "operation" }
ForcedLogins == { k \in LoginsMade : lgLog[k].forced }
FirstTry == CHOOSE k \in OperationsTried : \A j \in OperationsTried : k <= j
SessionFailed ==
    OperationsTried # {} /\ ~lgLog[FirstTry].ok /\ lgLog[FirstTry].text \in SessionFailures
Propagated(k) == lgPc = "done" /\ lgOutcome = Rejected(lgLog[k].text) /\ k = Len(lgLog)

\* C38 as stated: a session failure of the operation is followed by one
\* forced re-login and then by one retry of the operation.
SessionFailureAlwaysRetried ==
    (lgPc = "done" /\ SessionFailed) =>
        /\ Cardinality(ForcedLogins) = 1
        /\ Cardinality(OperationsTried) = 2

\* C38, amended: in loginAndSearch and loginAndFetchTorrentFile a session
\* failure of the operation triggers exactly one forced re-login, made
\* although the cache holds an unexpired cookie, which overwrites the cached
\* cookie when it succeeds and is then followed by exactly one retry of the
\* operation with the new cookie; a failure of the re-login or of the retry
\* is propagated, and an error that is not a session failure is propagated
\* without any re-login.
SessionFailureReloginsOnce ==
    /\ Cardinality(ForcedLogins) <= 1 /\ Cardinality(OperationsTried) <= 2
    /\ \A k \in ForcedLogins : k = FirstTry + 1 /\ SessionFailed
    /\ SessionFailed =>
          /\ lgPc # "done" => lgPc \in {"relogin", "retry"}
          /\ lgPc # "relogin" =>
                /\ ForcedLogins = {FirstTry + 1}
                /\ LET login == lgLog[FirstTry + 1] IN
                   IF login.ok
                   THEN /\ lgCache # None /\ lgCache.cookie = login.text
                        /\ lgCache.expiresAt > lgNow
                        /\ login.text # lgLog[FirstTry].cookie
                        /\ lgPc = "retry" => Cardinality(OperationsTried) = 1
                        /\ lgPc = "done" =>
                              /\ OperationsTried = {FirstTry, FirstTry + 2}
                              /\ Len(lgLog) = FirstTry + 2
                              /\ lgLog[FirstTry + 2].cookie = login.text
                              /\ IF lgLog[FirstTry + 2].ok
                                 THEN lgOutcome = Fulfilled
                                 ELSE Propagated(FirstTry + 2)
                   ELSE Propagated(FirstTry + 1) /\ Cardinality(OperationsTried) = 1
    /\ (OperationsTried # {} /\ ~lgLog[FirstTry].ok /\ ~SessionFailed) =>
          Propagated(FirstTry) /\ ForcedLogins = {}

\* Witness of C38: the operation, run with an unexpired cached cookie, failed
\* with a session failure, the forced re-login replaced the cached cookie and
\* the retry failed with a session failure again, which was thrown.
RetryFailedAfterReloginWitness ==
    /\ lgPc = "done" /\ Len(lgLog) = 3 /\ SessionFailed
    /\ lgLog[1].kind = "operation" /\ lgLog[1].cookie = "PHPSESSID=old"
    /\ lgLog[2].kind = "login" /\ lgLog[2].forced /\ lgLog[2].ok
    /\ lgCache.cookie = lgLog[2].text
    /\ lgLog[3].kind = "operation" /\ ~lgLog[3].ok /\ lgLog[3].text \in SessionFailures
    /\ lgOutcome = Rejected(lgLog[3].text)

====
